---- MODULE Spec2Model ----
(***************************************************************************)
(* A model of the logistics analysis scripts: the data cleaner, the        *)
(* quantile filters of the analysis steps, the synthetic data generator    *)
(* and the control flow of the entry points.                               *)
(*                                                                         *)
(* Conventions.  A table (a pandas DataFrame) is a record                  *)
(*   [cols |-> the set of column names, rows |-> a sequence of rows],      *)
(* a row being a function from the column names to cells.  A cell is a     *)
(* number, a timestamp, a text or the missing value NaN (NaT for dates).   *)
(* A text is a sequence of one-character strings, so that lower-casing and *)
(* stripping are computed on it.  The Russian column headers of the rename *)
(* maps are written transliterated (the module is ASCII).                  *)
(***************************************************************************)
EXTENDS Integers, Sequences, FiniteSets, TLC

VARIABLES
    dataset,   \* data_cleaning: which clean_* function the table goes through
    raw,       \* data_cleaning: the table as loaded by _load_csv
    cur,       \* data_cleaning: the table after the clean_* calls made so far
    prev,      \* data_cleaning: the table before the last clean_* call
    cleanErr,  \* data_cleaning: "" or the exception a clean_* call raised
    runs,      \* data_cleaning: number of clean_* calls made on the table
    cow,       \* pandas Copy-on-Write mode (chained inplace fillna is lost)
    stage,     \* data_cleaning: df before and after the imputation of the last call
    qin,           \* route analyses: the tables handed to the analysis
    qstep,         \* route analyses: the function that ran last ("" at first)
    route_metrics, \* route analyses: the per-route table (combined, route_metrics)
    thresholds,    \* route analyses: the quantile thresholds computed
    problematic,   \* route analyses: the rows the quantile filter returned
    insightsErr,   \* generate_clustering_insights: "" or the exception raised
    qout,          \* merge-based analyses: the table the step computed
    wh_i,      \* generate_warehouses: the loop index i (0 before the loop)
    wh,        \* generate_warehouses: the row appended by the last iteration
    gen,       \* data_generator.main: the tables built so far, in two runs
    fs,        \* entry points: the input CSV files, each absent or with its columns
    prog,      \* entry points: the script (or analyzer session) being run
    pc,        \* entry points: number of steps of the script executed
    outcome,   \* entry points: "running", "completed" or the exception raised
    log,       \* entry points: the messages the run has printed
    written,   \* entry points: the files the run has written
    analyzer,  \* LogisticsAnalyzer: loaded attributes and load_data's return value
    hyp,       \* hypothesis_testing: its input sample counts and its result
    nrun       \* entry points: number of scripts started so far

cleanVars == <<dataset, raw, cur, prev, cleanErr, runs, cow, stage>>

quantVars == <<qin, qstep, route_metrics, thresholds, problematic, insightsErr, qout>>

genVars == <<wh_i, wh, gen>>

runVars == <<fs, prog, pc, outcome, log, written, analyzer, hyp, nrun>>

vars == <<cleanVars, quantVars, genVars, runVars>>

---------------------------------------------------------------------------
(* Bounds *)

\* entry points: scripts run one after another on the same files
MaxPrograms == 2

\* hypothesis_testing: carriers in the shipments table
NumTestCarriers == 3

\* data_generator.main: shipments generated (num_shipments)
MaxShipments == 2

\* generate_warehouses: capacities tried are within this distance of either
\* end of the randint range
MaxCapOffset == 3

\* generate_warehouses: a uniform draw is a multiple of 1/UGrid
UGrid == 100

\* most rows of a table handed to a cleaner
MaxRows == 3
\* most rows of a table with Russian headers handed to a cleaner
MaxLocalizedRows == 2
\* most clean_* calls applied in a row to one table
MaxCleanRuns == 2
\* most shipment rows, and most delay rows, handed to a route analysis
MaxQRows == 3
\* most routes of routes_clean.csv handed to the clustering
MaxRoutes == 4

---------------------------------------------------------------------------
(* Cells *)

NaN == [t |-> "nan", v |-> 0, s |-> <<>>]
Num(n) == [t |-> "num", v |-> n, s |-> <<>>]
Date(d) == [t |-> "date", v |-> d, s |-> <<>>]
Str(s) == [t |-> "str", v |-> 0, s |-> s]

IsNa(c) == c.t = "nan"

Digits == <<"0", "1", "2", "3", "4", "5", "6", "7", "8", "9">>

IsDigit(ch) == \E d \in 1..10 : Digits[d] = ch

DigitVal(ch) == (CHOOSE d \in 1..10 : Digits[d] = ch) - 1

RECURSIVE ParseDigits(_)
ParseDigits(s) ==
    IF s = <<>> THEN 0
    ELSE 10 * ParseDigits(SubSeq(s, 1, Len(s) - 1)) + DigitVal(s[Len(s)])

IsNumeral(s) == s # <<>> /\ \A i \in 1..Len(s) : IsDigit(s[i])

RECURSIVE DecimalDigits(_)
DecimalDigits(n) ==
    IF n < 10 THEN <<Digits[n + 1]>>
    ELSE Append(DecimalDigits(n \div 10), Digits[(n % 10) + 1])

\* pd.to_numeric(series, errors="coerce") on one cell
to_numeric(c) ==
    CASE c.t = "num" -> c
      [] c.t = "nan" -> NaN
      [] c.t = "str" -> IF IsNumeral(c.s) THEN Num(ParseDigits(c.s)) ELSE NaN
      [] OTHER -> c

\* pd.to_datetime(series, errors="coerce") on one cell: a text made of
\* digits stands for a well-formed timestamp, any other text for a
\* malformed one
to_datetime(c) ==
    CASE c.t = "date" -> c
      [] c.t = "nan" -> NaN
      [] c.t = "str" -> IF IsNumeral(c.s) THEN Date(ParseDigits(c.s)) ELSE NaN
      [] OTHER -> c

\* series.astype(str) on one cell
astype_str(c) ==
    CASE c.t = "str" -> c.s
      [] c.t = "nan" -> <<"n", "a", "n">>
      [] OTHER -> DecimalDigits(c.v)

LowerChar(ch) ==
    CASE ch = "A" -> "a"
      [] ch = "B" -> "b"
      [] ch = "N" -> "n"
      [] OTHER -> ch

SwapChar(ch) ==
    CASE ch = "A" -> "a"
      [] ch = "a" -> "A"
      [] ch = "B" -> "b"
      [] ch = "b" -> "B"
      [] ch = "N" -> "n"
      [] ch = "n" -> "N"
      [] OTHER -> ch

str_lower(s) == [i \in 1..Len(s) |-> LowerChar(s[i])]

RECURSIVE str_lstrip(_)
str_lstrip(s) ==
    IF s # <<>> /\ s[1] = " " THEN str_lstrip(Tail(s)) ELSE s

RECURSIVE str_rstrip(_)
str_rstrip(s) ==
    IF s # <<>> /\ s[Len(s)] = " " THEN str_rstrip(SubSeq(s, 1, Len(s) - 1)) ELSE s

str_strip(s) == str_rstrip(str_lstrip(s))

\* a slip of _standardize_strings: swapcase() where lower() is meant
StandardizeSwapcase(c) ==
    Str(str_strip([i \in 1..Len(astype_str(c)) |-> SwapChar(astype_str(c)[i])]))

\* _standardize_strings on one cell
_standardize_strings(c) == Str(str_strip(str_lower(astype_str(c))))

---------------------------------------------------------------------------
(* Tables *)

DataFrame(cols, rows) == [cols |-> cols, rows |-> rows]

RenameCol(map, c) == IF c \in DOMAIN map THEN map[c] ELSE c

\* a slip of rename: every header is left as it is
RenameNothing(df, map) == df

\* df.rename(columns=map): the tables considered never carry a header
\* together with its translation, so the renaming is one to one
rename(df, map) ==
    LET newCols == {RenameCol(map, c) : c \in df.cols}
        Old(n) == CHOOSE c \in df.cols : RenameCol(map, c) = n
    IN DataFrame(newCols,
           [i \in 1..Len(df.rows) |-> [n \in newCols |-> df.rows[i][Old(n)]]])

\* one of the cell conversions, by name
Convert(f, c) ==
    CASE f = "to_numeric" -> to_numeric(c)
      [] f = "to_datetime" -> to_datetime(c)
      [] f = "_standardize_strings" -> _standardize_strings(c)

\* df[col] = f(df[col]) for every col of colset, cell by cell
MapCols(df, colset, f) ==
    DataFrame(df.cols,
        [i \in 1..Len(df.rows) |->
            [c \in df.cols |->
                IF c \in colset THEN Convert(f, df.rows[i][c]) ELSE df.rows[i][c]]])

RECURSIVE Insert(_, _)
Insert(x, s) ==
    IF s = <<>> THEN <<x>>
    ELSE IF x <= Head(s) THEN <<x>> \o s
    ELSE <<Head(s)>> \o Insert(x, Tail(s))

RECURSIVE Sort(_)
Sort(s) == IF s = <<>> THEN <<>> ELSE Insert(Head(s), Sort(Tail(s)))

\* the numbers among a sequence of cells, in order
RECURSIVE Values(_)
Values(cells) ==
    IF cells = <<>> THEN <<>>
    ELSE IF Head(cells).t = "num" THEN <<Head(cells).v>> \o Values(Tail(cells))
    ELSE Values(Tail(cells))

\* Series.median(): NaN is skipped; NaN when no value is left.  The raw
\* numbers are even, which keeps the mean of the two middle values whole.
Median(cells) ==
    LET s == Sort(Values(cells))
        n == Len(s)
    IN IF n = 0 THEN NaN
       ELSE IF n % 2 = 1 THEN Num(s[(n + 1) \div 2])
       ELSE Num((s[n \div 2] + s[(n \div 2) + 1]) \div 2)

\* Series.fillna(value) on one cell
fillna(c, value) == IF IsNa(c) THEN value ELSE c

\* df[col] = df[col].fillna(value)
FillNaCol(df, col, value) ==
    DataFrame(df.cols,
        [i \in 1..Len(df.rows) |-> [df.rows[i] EXCEPT ![col] = fillna(@, value)]])

\* the cells of column col in the rows whose column g holds key
RECURSIVE GroupCells(_, _, _, _)
GroupCells(rows, g, key, col) ==
    IF rows = <<>> THEN <<>>
    ELSE IF Head(rows)[g] = key
         THEN <<Head(rows)[col]>> \o GroupCells(Tail(rows), g, key, col)
         ELSE GroupCells(Tail(rows), g, key, col)

\* a slip of the imputation: the median of the whole column, not of the group
FillColumnByOverallMedian(df, g, col) ==
    LET all == [i \in 1..Len(df.rows) |-> df.rows[i][col]]
    IN FillNaCol(df, col, Median(all))

\* df[col] = df.groupby(g)[col].transform(lambda s: s.fillna(s.median())):
\* groupby drops the rows whose key is missing, and the assignment aligns
\* on the index, so those rows receive NaN
FillColumnByGroupMedian(df, g, col) ==
    DataFrame(df.cols,
        [i \in 1..Len(df.rows) |->
            LET r == df.rows[i]
            IN [r EXCEPT ![col] =
                   IF IsNa(r[g]) THEN NaN
                   ELSE fillna(@, Median(GroupCells(df.rows, g, r[g], col)))]])

RECURSIVE _fill_numeric_by_group_median(_, _, _)
_fill_numeric_by_group_median(df, group_col, numeric_cols) ==
    IF numeric_cols = <<>> THEN df
    ELSE _fill_numeric_by_group_median(
             FillColumnByGroupMedian(df, group_col, Head(numeric_cols)),
             group_col, Tail(numeric_cols))

\* df.drop_duplicates(): the first of equal rows is kept (NaN equals NaN)
RECURSIVE DedupRows(_, _)
DedupRows(rows, seen) ==
    IF rows = <<>> THEN <<>>
    ELSE IF Head(rows) \in seen THEN DedupRows(Tail(rows), seen)
    ELSE <<Head(rows)>> \o DedupRows(Tail(rows), seen \cup {Head(rows)})

drop_duplicates(df) == DataFrame(df.cols, DedupRows(df.rows, {}))

\* the result of a call: the table returned, or the exception raised
Ok(df) == [err |-> "", df |-> df]
Raise(e, df) == [err |-> e, df |-> df]

\* the table returned, with df as it was just before and just after the
\* imputation statement (both have the rows of the input, in its order)
Staged(df, before, after) ==
    [err |-> "", df |-> df, stage |-> [coerced |-> before, imputed |-> after]]

NoStage == [coerced |-> DataFrame({}, <<>>), imputed |-> DataFrame({}, <<>>)]

---------------------------------------------------------------------------
(* data_cleaning.py: the dataset-specific cleaners *)

\* rename_map of clean_shipments ("ru:" marks a transliterated Russian header)
ShipmentsRenameMap ==
    [c \in {"ru:data otpravki", "ru:data dostavki", "ru:ves", "ru:stoimost",
            "ru:otpravitel", "ru:poluchatel", "ru:marshrut", "ru:status"} |->
        CASE c = "ru:data otpravki" -> "ship_date"
          [] c = "ru:data dostavki" -> "delivery_date"
          [] c = "ru:ves" -> "weight"
          [] c = "ru:stoimost" -> "cost"
          [] c = "ru:otpravitel" -> "sender"
          [] c = "ru:poluchatel" -> "recipient"
          [] c = "ru:marshrut" -> "route_id"
          [] c = "ru:status" -> "status"]

\* rename_map of clean_routes
RoutesRenameMap ==
    [c \in {"ru:marshrut_id", "ru:nachalnyi punkt", "ru:konechnyi punkt",
            "ru:rasstoyanie", "ru:srednee vremya v puti",
            "ru:srednyaya stoimost"} |->
        CASE c = "ru:marshrut_id" -> "route_id"
          [] c = "ru:nachalnyi punkt" -> "origin"
          [] c = "ru:konechnyi punkt" -> "destination"
          [] c = "ru:rasstoyanie" -> "distance"
          [] c = "ru:srednee vremya v puti" -> "avg_time"
          [] c = "ru:srednyaya stoimost" -> "avg_cost"]

\* rename_map of clean_warehouses
WarehousesRenameMap ==
    [c \in {"ru:region", "ru:emkost", "ru:tekushchee zapolnenie"} |->
        CASE c = "ru:region" -> "region"
          [] c = "ru:emkost" -> "capacity"
          [] c = "ru:tekushchee zapolnenie" -> "current_fill"]

\* rename_map of clean_carriers
CarriersRenameMap ==
    [c \in {"ru:nazvanie", "ru:srednyaya otsenka", "ru:kol-vo mashin",
            "ru:nadezhnost"} |->
        CASE c = "ru:nazvanie" -> "name"
          [] c = "ru:srednyaya otsenka" -> "rating"
          [] c = "ru:kol-vo mashin" -> "fleet_size"
          [] c = "ru:nadezhnost" -> "reliability"]

\* rename_map of clean_delays
DelaysRenameMap ==
    [c \in {"ru:marshrut_id", "ru:data", "ru:prichina",
            "ru:zaderzhka_v_chasakh"} |->
        CASE c = "ru:marshrut_id" -> "route_id"
          [] c = "ru:data" -> "date"
          [] c = "ru:prichina" -> "reason"
          [] c = "ru:zaderzhka_v_chasakh" -> "delay_hours"]

\* df[c] for a column the table lacks raises KeyError
Has(df, needed) == needed \subseteq df.cols

clean_shipments(df0) ==
    LET df1 == rename(df0, ShipmentsRenameMap)
    IN IF ~Has(df1, {"ship_date", "delivery_date", "weight", "cost", "route_id",
                     "sender", "recipient", "status"})
       THEN Raise("KeyError", df0)
       ELSE LET df2 == MapCols(df1, {"ship_date", "delivery_date"}, "to_datetime")
                df3 == MapCols(df2, {"weight", "cost"}, "to_numeric")
                df4 == _fill_numeric_by_group_median(df3, "route_id",
                                                     <<"weight", "cost">>)
                df5 == MapCols(df4, {"sender", "recipient", "status"},
                               "_standardize_strings")
            IN Staged(drop_duplicates(df5), df3, df4)

\* a slip of clean_routes: duplicates are dropped before the text is normalized
CleanRoutesDedupFirst(df0) ==
    LET df1 == rename(df0, RoutesRenameMap)
    IN IF ~Has(df1, {"distance", "avg_time", "avg_cost", "origin", "destination"})
       THEN Raise("KeyError", df0)
       ELSE LET df2 == MapCols(drop_duplicates(df1), {"distance", "avg_time", "avg_cost"},
                               "to_numeric")
            IN Ok(MapCols(df2, {"origin", "destination"}, "_standardize_strings"))

clean_routes(df0) ==
    LET df1 == rename(df0, RoutesRenameMap)
    IN IF ~Has(df1, {"distance", "avg_time", "avg_cost", "origin", "destination"})
       THEN Raise("KeyError", df0)
       ELSE LET df2 == MapCols(df1, {"distance", "avg_time", "avg_cost"}, "to_numeric")
                df3 == MapCols(df2, {"origin", "destination"}, "_standardize_strings")
            IN Ok(drop_duplicates(df3))

\* df["current_fill"].fillna(df["current_fill"].median(), inplace=True) fills
\* the column of df through the selected Series; under pandas Copy-on-Write
\* the Series is a copy and df is left as it was
clean_warehouses(df0, copyOnWrite) ==
    LET df1 == rename(df0, WarehousesRenameMap)
    IN IF ~Has(df1, {"region", "capacity", "current_fill"})
       THEN Raise("KeyError", df0)
       ELSE LET df2 == MapCols(df1, {"region"}, "_standardize_strings")
                df3 == MapCols(df2, {"capacity", "current_fill"}, "to_numeric")
                med == Median([i \in 1..Len(df3.rows) |-> df3.rows[i]["current_fill"]])
                df4 == IF copyOnWrite THEN df3
                       ELSE FillNaCol(df3, "current_fill", med)
            IN Staged(drop_duplicates(df4), df3, df4)

clean_carriers(df0) ==
    LET df1 == rename(df0, CarriersRenameMap)
    IN IF ~Has(df1, {"name", "rating", "fleet_size", "reliability"})
       THEN Raise("KeyError", df0)
       ELSE LET df2 == MapCols(df1, {"name"}, "_standardize_strings")
                df3 == MapCols(df2, {"rating", "fleet_size", "reliability"}, "to_numeric")
            IN Ok(drop_duplicates(df3))

\* a slip of clean_delays: the gaps of delay_hours are left unfilled
CleanDelaysNoFill(df0) ==
    LET df1 == rename(df0, DelaysRenameMap)
    IN IF ~Has(df1, {"date", "delay_hours", "reason"})
       THEN Raise("KeyError", df0)
       ELSE LET df2 == MapCols(df1, {"date"}, "to_datetime")
                df3 == MapCols(df2, {"delay_hours"}, "to_numeric")
                df4 == MapCols(df3, {"reason"}, "_standardize_strings")
            IN Ok(drop_duplicates(df4))

clean_delays(df0) ==
    LET df1 == rename(df0, DelaysRenameMap)
    IN IF ~Has(df1, {"date", "delay_hours", "reason"})
       THEN Raise("KeyError", df0)
       ELSE LET df2 == MapCols(MapCols(df1, {"date"}, "to_datetime"),
                               {"delay_hours"}, "to_numeric")
                df3 == FillNaCol(df2, "delay_hours", Num(0))
                df4 == MapCols(df3, {"reason"}, "_standardize_strings")
            IN Staged(drop_duplicates(df4), df2, df3)

---------------------------------------------------------------------------
(* The raw tables handed to the cleaners *)

Datasets == {"shipments", "routes", "warehouses", "carriers", "delays"}

RenameMapOf(d) ==
    CASE d = "shipments" -> ShipmentsRenameMap
      [] d = "routes" -> RoutesRenameMap
      [] d = "warehouses" -> WarehousesRenameMap
      [] d = "carriers" -> CarriersRenameMap
      [] d = "delays" -> DelaysRenameMap

\* the header of the carrier column in a shipments file with Russian headers
LocalizedCarrierId == "ru:perevozchik"

\* the same table under Russian headers: those of the rename map for the
\* columns it names, and the carrier column under its own
Localized(df, map) ==
    LET Ru(n) == IF \E c \in DOMAIN map : map[c] = n
                 THEN CHOOSE c \in DOMAIN map : map[c] = n
                 ELSE IF n = "carrier_id" THEN LocalizedCarrierId ELSE n
        ruCols == {Ru(n) : n \in df.cols}
        En(c) == CHOOSE n \in df.cols : Ru(n) = c
    IN DataFrame(ruCols,
           [i \in 1..Len(df.rows) |-> [c \in ruCols |-> df.rows[i][En(c)]]])

ShipRow(r, w, c, s, d) ==
    [ship_date |-> Str(<<"1">>), delivery_date |-> d, weight |-> w, cost |-> c,
     sender |-> s, recipient |-> Str(<<"B">>), route_id |-> r,
     carrier_id |-> Num(1), status |-> Str(<<"a">>)]

ShipmentRowChoices ==
    {ShipRow(r, w, Num(4), Str(<<"a">>), Str(<<"2">>)) :
        r \in {Num(1), Num(2), NaN},
        w \in {NaN, Str(<<"x">>), Num(2), Num(6)}}
    \cup
    {ShipRow(Num(1), Num(2), c, s, Str(<<"x">>)) :
        c \in {NaN, Num(4)},
        s \in {Str(<<" ", "A">>), Str(<<"a">>)}}

RouteRow(o, d) ==
    [route_id |-> Num(1), origin |-> o, destination |-> Str(<<"B", " ">>),
     distance |-> d, avg_time |-> Num(2), avg_cost |-> NaN]

RouteRowChoices ==
    {RouteRow(o, d) :
        o \in {Str(<<"A", " ">>), Str(<<"a">>), NaN},
        d \in {Num(2), Str(<<"4">>), Str(<<"x">>), NaN}}

WarehouseRow(g, f) ==
    [region |-> g, capacity |-> Num(10), current_fill |-> f]

WarehouseRowChoices ==
    {WarehouseRow(g, f) :
        g \in {Str(<<" ", "A">>), Str(<<"a">>)},
        f \in {NaN, Str(<<"x">>), Num(2), Num(6)}}

CarrierRow(n, g, b) ==
    [name |-> n, rating |-> g, fleet_size |-> Num(10), reliability |-> b]

CarrierRowChoices ==
    {CarrierRow(n, g, b) :
        n \in {Str(<<"A", " ">>), Str(<<"a">>)},
        g \in {Num(4), Str(<<"x">>), NaN},
        b \in {NaN, Num(2)}}

DelayRow(d, n, h) ==
    [route_id |-> Num(1), date |-> d, reason |-> n, delay_hours |-> h]

DelayRowChoices ==
    {DelayRow(d, n, h) :
        d \in {Str(<<"1">>), Str(<<"x">>)},
        n \in {Str(<<"A">>), Str(<<"a">>)},
        h \in {NaN, Str(<<"x">>), Num(2)}}

RowChoices(d) ==
    CASE d = "shipments" -> ShipmentRowChoices
      [] d = "routes" -> RouteRowChoices
      [] d = "warehouses" -> WarehouseRowChoices
      [] d = "carriers" -> CarrierRowChoices
      [] d = "delays" -> DelayRowChoices

ColsOf(d) == DOMAIN (CHOOSE r \in RowChoices(d) : TRUE)

RawTables(d, maxRows) ==
    UNION {{DataFrame(ColsOf(d), rows) : rows \in [1..n -> RowChoices(d)]} :
              n \in 0..maxRows}

---------------------------------------------------------------------------
(* data_cleaning: a table is loaded and cleaned, possibly more than once *)

NoWarehouse ==
    [warehouse_id |-> 0, capacity |-> 0, current_load |-> 0, utilization_rate |-> 0]

NoTables == [carriers |-> <<>>, warehouses |-> <<>>, routes |-> <<>>,
             shipments |-> <<>>, delays |-> <<>>]

IdleGen ==
    /\ wh_i = 0
    /\ wh = NoWarehouse
    /\ gen = [step |-> "", now |-> <<0, 0>>, tables |-> <<NoTables, NoTables>>]

NoAnalyzer == [attrs |-> {}, ret |-> "none"]

NoTest == [counts |-> <<>>, ran |-> FALSE, carriers |-> {}, pval |-> NaN, decision |-> ""]

IdleRun ==
    /\ fs = <<>>
    /\ prog = ""
    /\ pc = 0
    /\ outcome = ""
    /\ log = {}
    /\ written = {}
    /\ analyzer = NoAnalyzer
    /\ hyp = NoTest
    /\ nrun = 0

IdleQuant ==
    /\ qin = [kind |-> "none"]
    /\ qstep = ""
    /\ route_metrics = <<>>
    /\ thresholds = <<>>
    /\ problematic = <<>>
    /\ insightsErr = ""
    /\ qout = <<>>

InitClean ==
    /\ IdleQuant
    /\ IdleGen
    /\ IdleRun
    /\ dataset \in Datasets
    /\ \/ raw \in RawTables(dataset, MaxRows)
       \/ \E t \in RawTables(dataset, MaxLocalizedRows) :
             raw = Localized(t, RenameMapOf(dataset))
    /\ cur = raw
    /\ prev = raw
    /\ cleanErr = ""
    /\ runs = 0
    /\ cow \in (IF dataset = "warehouses" THEN BOOLEAN ELSE {FALSE})
    /\ stage = NoStage

Cleaned(res) ==
    /\ runs < MaxCleanRuns
    /\ cleanErr = ""
    /\ prev' = cur
    /\ cur' = res.df
    /\ cleanErr' = res.err
    /\ runs' = runs + 1
    /\ stage' = IF "stage" \in DOMAIN res THEN res.stage ELSE NoStage
    /\ UNCHANGED <<dataset, raw, cow, quantVars, genVars, runVars>>

CleanShipments == dataset = "shipments" /\ Cleaned(clean_shipments(cur))

CleanRoutes == dataset = "routes" /\ Cleaned(clean_routes(cur))

CleanWarehouses == dataset = "warehouses" /\ Cleaned(clean_warehouses(cur, cow))

CleanCarriers == dataset = "carriers" /\ Cleaned(clean_carriers(cur))

CleanDelays == dataset = "delays" /\ Cleaned(clean_delays(cur))

NextClean ==
    \/ CleanShipments
    \/ CleanRoutes
    \/ CleanWarehouses
    \/ CleanCarriers
    \/ CleanDelays

SpecClean == InitClean /\ [][NextClean]_vars

---------------------------------------------------------------------------
(* Claims on the cleaners *)

\* C1: each cleaner is idempotent: cleaning a cleaned table returns it
\* unchanged, row for row and column for column
C1_CleanersIdempotent ==
    (runs >= 2 /\ cleanErr = "") => cur = prev

\* C1 witness: a table that the first cleaning changed (rows dropped, cells
\* rewritten) has been cleaned twice
C1_Witness ==
    /\ runs = 2
    /\ cleanErr = ""
    /\ Len(prev.rows) < Len(raw.rows)
    /\ Len(prev.rows) > 1
    /\ cur = prev

NoMissing(df, col) == \A i \in 1..Len(df.rows) : ~IsNa(df.rows[i][col])

\* C2: after cleaning, the imputation targets hold no missing value: weight
\* and cost of shipments, current_fill of warehouses, delay_hours of delays
C2_NoMissingAfterCleaning ==
    (runs >= 1 /\ cleanErr = "") =>
        /\ dataset = "shipments" => NoMissing(cur, "weight") /\ NoMissing(cur, "cost")
        /\ dataset = "warehouses" => NoMissing(cur, "current_fill")
        /\ dataset = "delays" => NoMissing(cur, "delay_hours")

---------------------------------------------------------------------------
(* The route analyses: per-route aggregation and quantile filters *)

IdleClean ==
    /\ dataset = "none"
    /\ raw = DataFrame({}, <<>>)
    /\ cur = raw
    /\ prev = raw
    /\ cleanErr = ""
    /\ runs = 0
    /\ cow = FALSE
    /\ stage = NoStage

RECURSIVE SeqSum(_)
SeqSum(s) == IF s = <<>> THEN 0 ELSE Head(s) + SeqSum(Tail(s))

RECURSIVE Fact(_)
Fact(n) == IF n <= 1 THEN 1 ELSE n * Fact(n - 1)

RECURSIVE SeqOfSet(_)
SeqOfSet(S) ==
    IF S = {} THEN <<>>
    ELSE LET x == CHOOSE y \in S : TRUE IN <<x>> \o SeqOfSet(S \ {x})

Column(rows, col) == [i \in 1..Len(rows) |-> rows[i][col]]

\* the group keys of a table: groupby leaves out the rows with a missing key
RouteKeys(rows) ==
    Sort(SeqOfSet({rows[i].route_id.v : i \in {j \in 1..Len(rows) : ~IsNa(rows[j].route_id)}}))

\* Series.mean() kept exact: the mean of at most MaxQRows whole numbers, in
\* units of 1/MeanScale; NaN is skipped, NaN when no value is left
MeanScale == Fact(MaxQRows)

ExactMean(cells) ==
    LET v == Values(cells)
    IN IF v = <<>> THEN NaN ELSE Num(SeqSum(v) * (MeanScale \div Len(v)))

\* Series.mean().round(2), in hundredths (no mean of at most four whole
\* numbers lies half way between two hundredths)
RoundedMean(cells) ==
    LET v == Values(cells)
    IN IF v = <<>> THEN NaN
       ELSE Num((2 * 100 * SeqSum(v) + Len(v)) \div (2 * Len(v)))

\* Series.quantile(qNum/qDen), linear interpolation between the order
\* statistics around position (n-1)*q, NaN skipped; the result is in units of
\* 1/qDen of the column's unit, which keeps it whole
Quantile(cells, qNum, qDen) ==
    LET s == Sort(Values(cells))
        n == Len(s)
        k == (n - 1) * qNum
        lo == (k \div qDen) + 1
        r == k % qDen
    IN IF n = 0 THEN NaN
       ELSE IF r = 0 THEN Num(qDen * s[lo])
       ELSE Num((qDen - r) * s[lo] + r * s[lo + 1])

\* a slip of the filters: >= where > is written
GtOrEqual(c, thr, qDen) ==
    c.t = "num" /\ thr.t = "num" /\ qDen * c.v >= thr.v

\* series > threshold on one cell; a comparison with NaN is False
Gt(c, thr, qDen) ==
    c.t = "num" /\ thr.t = "num" /\ qDen * c.v > thr.v

\* series >= threshold on one cell
Ge(c, thr, qDen) ==
    c.t = "num" /\ thr.t = "num" /\ qDen * c.v >= thr.v

\* series < threshold on one cell
Lt(c, thr, qDen) ==
    c.t = "num" /\ thr.t = "num" /\ qDen * c.v < thr.v

\* rows.sort_values(["avg_cost", "avg_delay"], ascending=False)
RECURSIVE SortByCostDelayDesc(_)
SortByCostDelayDesc(rows) ==
    IF rows = <<>> THEN <<>>
    ELSE LET Before(a, b) ==
                 \/ a.avg_cost.v > b.avg_cost.v
                 \/ a.avg_cost.v = b.avg_cost.v /\ a.avg_delay.v >= b.avg_delay.v
             top == CHOOSE i \in 1..Len(rows) :
                        /\ \A j \in 1..Len(rows) : Before(rows[i], rows[j])
                        /\ \A j \in 1..(i - 1) : ~Before(rows[j], rows[i])
         IN <<rows[top]>> \o
            SortByCostDelayDesc(SubSeq(rows, 1, top - 1) \o SubSeq(rows, top + 1, Len(rows)))

\* advanced_analysis.inefficient_routes: avg_cost and avg_delay are in units
\* of 1/MeanScale, the thresholds in units of 1/(4*MeanScale)
inefficient_routes(shipments_df, delays_df) ==
    LET keys == Sort(SeqOfSet({RouteKeys(shipments_df)[i] : i \in 1..Len(RouteKeys(shipments_df))}
                       \cup {RouteKeys(delays_df)[i] : i \in 1..Len(RouteKeys(delays_df))}))
        joined == [i \in 1..Len(keys) |->
                     [route_id |-> Num(keys[i]),
                      avg_cost |-> ExactMean(GroupCells(shipments_df, "route_id", Num(keys[i]), "cost")),
                      avg_delay |-> ExactMean(GroupCells(delays_df, "route_id", Num(keys[i]), "delay_hours"))]]
        NotNa(r) == ~IsNa(r.avg_cost) /\ ~IsNa(r.avg_delay)
        combined == SelectSeq(joined, NotNa)
        cost_thresh == Quantile(Column(combined, "avg_cost"), 3, 4)
        delay_thresh == Quantile(Column(combined, "avg_delay"), 3, 4)
        Inefficient(r) == Gt(r.avg_cost, cost_thresh, 4) /\ Gt(r.avg_delay, delay_thresh, 4)
    IN [combined |-> [index |-> "", cols |-> {"route_id", "avg_cost", "avg_delay"},
                      rows |-> combined],
        thresholds |-> [avg_cost |-> cost_thresh, avg_delay |-> delay_thresh],
        ineff |-> SortByCostDelayDesc(SelectSeq(combined, Inefficient))]

\* shipments.merge(routes, on='route_id').groupby('route_id').agg(...).round(2),
\* common to analyze_route_efficiency and analyze_routes_efficiency: the inner
\* merge keeps the shipments whose route is in routes (route ids are unique
\* there); avg_delay and avg_cost are in hundredths, distance in km;
\* 'count' counts the non-missing delay_hours
GroupedRouteMetrics(shipments, routes) ==
    LET InRoutes(r) == \E j \in 1..Len(routes) : routes[j].route_id = r.route_id
        shipments_routes == SelectSeq(shipments, InRoutes)
        keys == RouteKeys(shipments_routes)
    IN [i \in 1..Len(keys) |->
           LET delays == GroupCells(shipments_routes, "route_id", Num(keys[i]), "delay_hours")
               costs == GroupCells(shipments_routes, "route_id", Num(keys[i]), "delivery_cost")
               route == CHOOSE j \in 1..Len(routes) : routes[j].route_id = Num(keys[i])
           IN [route_id |-> Num(keys[i]),
               avg_delay |-> RoundedMean(delays),
               shipment_count |-> Num(Len(Values(delays))),
               avg_cost |-> RoundedMean(costs),
               distance |-> routes[route].distance_km]]

QRoutes == {1, 2, 3}

\* distance_km of the routes of the tables considered, and a common multiple
\* of the distances: cost_per_km = avg_cost / distance is kept whole in units
\* of 1/(100*DistScale)
RouteDistance(r) == IF r = 1 THEN 1 ELSE 2

DistScale == Fact(RouteDistance(Cardinality(QRoutes)))

\* final_analysis_report.analyze_route_efficiency: the thresholds are in units
\* of 1/5 of the column's unit
analyze_route_efficiency(shipments, routes) ==
    LET grouped == GroupedRouteMetrics(shipments, routes)
        metrics == [i \in 1..Len(grouped) |->
                      [route_id |-> grouped[i].route_id,
                       avg_delay |-> grouped[i].avg_delay,
                       shipment_count |-> grouped[i].shipment_count,
                       avg_cost |-> grouped[i].avg_cost,
                       distance |-> grouped[i].distance,
                       cost_per_km |->
                           IF IsNa(grouped[i].avg_cost) THEN NaN
                           ELSE Num(grouped[i].avg_cost.v * (DistScale \div grouped[i].distance.v))]]
        delay_thresh == Quantile(Column(metrics, "avg_delay"), 4, 5)
        cpk_thresh == Quantile(Column(metrics, "cost_per_km"), 4, 5)
        Problematic(r) == Gt(r.avg_delay, delay_thresh, 5) \/ Gt(r.cost_per_km, cpk_thresh, 5)
    IN [route_metrics |->
            [index |-> "route_id",
             cols |-> {"avg_delay", "shipment_count", "max_delay", "avg_cost", "distance",
                       "start", "end", "planned_time", "cost_per_km", "efficiency_score"},
             rows |-> metrics],
        thresholds |-> [avg_delay |-> delay_thresh, cost_per_km |-> cpk_thresh],
        problematic_routes |-> SelectSeq(metrics, Problematic)]

\* LogisticsAnalyzer.analyze_routes_efficiency and the route part of
\* LogisticsAnalyzer.generate_recommendations
generate_recommendations(shipments, routes) ==
    LET metrics == GroupedRouteMetrics(shipments, routes)
        delay_thresh == Quantile(Column(metrics, "avg_delay"), 4, 5)
        cost_thresh == Quantile(Column(metrics, "avg_cost"), 4, 5)
        Problematic(r) == Gt(r.avg_delay, delay_thresh, 5) /\ Gt(r.avg_cost, cost_thresh, 5)
    IN [route_metrics |->
            [index |-> "route_id",
             cols |-> {"avg_delay", "shipment_count", "avg_cost", "planned_time",
                       "distance", "start", "end", "efficiency_score"},
             rows |-> metrics],
        thresholds |-> [avg_delay |-> delay_thresh, avg_cost |-> cost_thresh],
        problematic_routes |-> SelectSeq(metrics, Problematic)]

ClusterCodes ==
    {"High Cost + High Delay", "High Cost + Low Delay",
     "Low Cost + High Delay", "Low Cost + Low Delay"}

\* final_analysis_report.generate_clustering_insights on a route_metrics
\* frame: np.select takes the first condition that holds and 'Other' when
\* none does; the aggregation that follows names 'route_id', which must be a
\* column of the frame
generate_clustering_insights(metrics) ==
    LET cost_threshold == Quantile(Column(metrics.rows, "avg_cost"), 3, 4)
        delay_threshold == Quantile(Column(metrics.rows, "avg_delay"), 3, 4)
        Cluster(r) ==
            CASE Ge(r.avg_cost, cost_threshold, 4) /\ Ge(r.avg_delay, delay_threshold, 4)
                    -> "High Cost + High Delay"
              [] Ge(r.avg_cost, cost_threshold, 4) /\ Lt(r.avg_delay, delay_threshold, 4)
                    -> "High Cost + Low Delay"
              [] Lt(r.avg_cost, cost_threshold, 4) /\ Ge(r.avg_delay, delay_threshold, 4)
                    -> "Low Cost + High Delay"
              [] Lt(r.avg_cost, cost_threshold, 4) /\ Lt(r.avg_delay, delay_threshold, 4)
                    -> "Low Cost + Low Delay"
              [] OTHER -> "Other"
        labelled == [index |-> metrics.index,
                     cols |-> metrics.cols \cup {"cluster"},
                     rows |-> [i \in 1..Len(metrics.rows) |->
                                  [c \in DOMAIN metrics.rows[i] \cup {"cluster"} |->
                                      IF c = "cluster" THEN Cluster(metrics.rows[i])
                                      ELSE metrics.rows[i][c]]]]
    IN [route_metrics |-> labelled,
        err |-> IF {"route_id", "avg_delay", "avg_cost", "shipment_count"} \subseteq labelled.cols
                THEN "" ELSE "KeyError"]

---------------------------------------------------------------------------
(* The tables handed to the route analyses *)

\* the tables of at most maxRows rows drawn from a set of rows, one table for
\* each multiset of rows (the route analyses aggregate over the rows)
TablesUpToOrder(rowSet, maxRows) ==
    LET choices == SeqOfSet(rowSet)
        Ascending(n) == {g \in [1..n -> 1..Len(choices)] :
                            \A i \in 1..(n - 1) : g[i] <= g[i + 1]}
    IN UNION {{[i \in 1..n |-> choices[g[i]]] : g \in Ascending(n)} : n \in 0..maxRows}

\* shipments_clean.csv and delays_clean.csv as read by advanced_analysis.main
AdvancedInputs ==
    {[kind |-> "advanced", shipments |-> sh, delays |-> de] :
        sh \in TablesUpToOrder({[route_id |-> Num(r), cost |-> c] :
                                   r \in QRoutes, c \in {Num(2), Num(4)}}, MaxQRows),
        de \in TablesUpToOrder({[route_id |-> Num(r), delay_hours |-> Num(h)] :
                                   r \in QRoutes, h \in {1, 3}}, MaxQRows)}

\* shipments (with delay_hours computed) and routes as held by the report
\* generator and by LogisticsAnalyzer
ReportInputs ==
    {[kind |-> "report", shipments |-> sh, routes |-> ro] :
        sh \in TablesUpToOrder({[route_id |-> Num(r), delay_hours |-> h, delivery_cost |-> Num(c)] :
                                   r \in QRoutes, h \in {NaN, Num(0), Num(3)}, c \in {2, 4}},
                               MaxQRows),
        ro \in {[i \in 1..Len(Sort(SeqOfSet(R))) |->
                    [route_id |-> Num(Sort(SeqOfSet(R))[i]),
                     distance_km |-> Num(RouteDistance(Sort(SeqOfSet(R))[i]))]] :
                   R \in SUBSET QRoutes}}

InitQuant ==
    /\ IdleClean
    /\ IdleGen
    /\ IdleRun
    /\ qin \in AdvancedInputs \cup ReportInputs
    /\ qstep = ""
    /\ route_metrics = <<>>
    /\ thresholds = <<>>
    /\ problematic = <<>>
    /\ insightsErr = ""
    /\ qout = <<>>

InefficientRoutes ==
    /\ qin.kind = "advanced"
    /\ qstep = ""
    /\ LET res == inefficient_routes(qin.shipments, qin.delays)
       IN /\ route_metrics' = res.combined
          /\ thresholds' = res.thresholds
          /\ problematic' = res.ineff
    /\ qstep' = "inefficient_routes"
    /\ UNCHANGED <<qin, insightsErr, qout, cleanVars, genVars, runVars>>

AnalyzeRouteEfficiency ==
    /\ qin.kind = "report"
    /\ qstep = ""
    /\ LET res == analyze_route_efficiency(qin.shipments, qin.routes)
       IN /\ route_metrics' = res.route_metrics
          /\ thresholds' = res.thresholds
          /\ problematic' = res.problematic_routes
    /\ qstep' = "analyze_route_efficiency"
    /\ UNCHANGED <<qin, insightsErr, qout, cleanVars, genVars, runVars>>

GenerateRecommendations ==
    /\ qin.kind = "report"
    /\ qstep = ""
    /\ LET res == generate_recommendations(qin.shipments, qin.routes)
       IN /\ route_metrics' = res.route_metrics
          /\ thresholds' = res.thresholds
          /\ problematic' = res.problematic_routes
    /\ qstep' = "generate_recommendations"
    /\ UNCHANGED <<qin, insightsErr, qout, cleanVars, genVars, runVars>>

GenerateClusteringInsights ==
    /\ qstep = "analyze_route_efficiency"
    /\ LET res == generate_clustering_insights(route_metrics)
       IN /\ route_metrics' = res.route_metrics
          /\ insightsErr' = res.err
    /\ qstep' = "generate_clustering_insights"
    /\ UNCHANGED <<qin, thresholds, problematic, qout, cleanVars, genVars, runVars>>

NextQuant ==
    \/ InefficientRoutes
    \/ AnalyzeRouteEfficiency
    \/ GenerateRecommendations
    \/ GenerateClusteringInsights

SpecQuant == InitQuant /\ [][NextQuant]_vars

---------------------------------------------------------------------------
(* Claims on the route analyses *)

IsRowOf(r, frame) == \E j \in 1..Len(frame.rows) : frame.rows[j] = r

\* cell c is strictly greater than the threshold computed for metric m
\* (thresholds are in units of 1/qDen of the metric's unit)
Above(r, m, qDen) ==
    r[m].t = "num" /\ thresholds[m].t = "num" /\ qDen * r[m].v > thresholds[m].v

\* C3 as stated: every route a quantile-threshold filter returns is an input
\* route and has every thresholded metric strictly above its threshold
C3_AllMetricsAboveThreshold ==
    \A i \in 1..Len(problematic) :
        /\ qstep = "inefficient_routes" =>
              /\ IsRowOf(problematic[i], route_metrics)
              /\ Above(problematic[i], "avg_cost", 4)
              /\ Above(problematic[i], "avg_delay", 4)
        /\ qstep = "generate_recommendations" =>
              /\ IsRowOf(problematic[i], route_metrics)
              /\ Above(problematic[i], "avg_delay", 5)
              /\ Above(problematic[i], "avg_cost", 5)
        /\ qstep = "analyze_route_efficiency" =>
              /\ IsRowOf(problematic[i], route_metrics)
              /\ Above(problematic[i], "avg_delay", 5)
              /\ Above(problematic[i], "cost_per_km", 5)

\* C3 amended: every route a quantile-threshold filter returns is an input
\* route; those of inefficient_routes and of generate_recommendations have
\* both thresholded metrics strictly above their thresholds, those of
\* analyze_route_efficiency have at least one of avg_delay and cost_per_km
\* strictly above its threshold
C3_QuantileFilters ==
    \A i \in 1..Len(problematic) :
        /\ qstep = "inefficient_routes" =>
              /\ IsRowOf(problematic[i], route_metrics)
              /\ Above(problematic[i], "avg_cost", 4)
              /\ Above(problematic[i], "avg_delay", 4)
        /\ qstep = "generate_recommendations" =>
              /\ IsRowOf(problematic[i], route_metrics)
              /\ Above(problematic[i], "avg_delay", 5)
              /\ Above(problematic[i], "avg_cost", 5)
        /\ qstep = "analyze_route_efficiency" =>
              /\ IsRowOf(problematic[i], route_metrics)
              /\ \/ Above(problematic[i], "avg_delay", 5)
                 \/ Above(problematic[i], "cost_per_km", 5)

\* C3 witness: analyze_route_efficiency returned, among three routes, one
\* whose avg_delay is above its threshold and whose cost_per_km is not
C3_Witness ==
    /\ qstep = "analyze_route_efficiency"
    /\ Len(route_metrics.rows) = 3
    /\ \E i \in 1..Len(problematic) :
          /\ Above(problematic[i], "avg_delay", 5)
          /\ ~Above(problematic[i], "cost_per_km", 5)

\* C4: generate_clustering_insights gives every route one of the four
\* quartile codes, never the fallback 'Other'
C4_EveryRouteGetsQuartileCode ==
    qstep = "generate_clustering_insights" =>
        \A i \in 1..Len(route_metrics.rows) :
            route_metrics.rows[i].cluster \in ClusterCodes

---------------------------------------------------------------------------
(* data_generator: generate_warehouses                                      *)
(* Rates and range limits are counted in hundredths; a uniform draw is the  *)
(* numerator k of k/UGrid.  The rows are drawn independently of each other, *)
(* so the state keeps the row appended last instead of the whole list.      *)

NumWarehouses == 12

\* a designation that forgets warehouse 9
DesignatedWithoutNine == {3, 7}

DesignatedWarehouses == {3, 7, 9}

CapLow == 1000

CapHigh == 5000

HighLoadLo == 85

HighLoadHi == 95

NormalLoadLo == 40

NormalLoadHi == 80

\* np.random.randint(low, high): an integer of [low, high)
randint(low, high) ==
    {c \in low..(high - 1) : c - low <= MaxCapOffset \/ high - 1 - c <= MaxCapOffset}

\* np.random.uniform(lo, hi) with the limits in hundredths: k/UGrid within
\* [lo, hi]; numpy documents that rounding can return the upper limit
uniform(lo, hi) == {k \in 0..UGrid : lo * UGrid <= 100 * k /\ 100 * k <= hi * UGrid}

\* int(capacity * u): truncation of the non-negative product
current_load(capacity, k) == (capacity * k) \div UGrid

\* a buggy variant: the rate is truncated to two decimals instead of rounded
RateTruncated(load, capacity) == {(100 * load) \div capacity}

\* round(current_load / capacity, 2), in hundredths.  An exact tie is decided
\* by the binary representation of the quotient: both neighbours are possible
utilization_rate(load, capacity) ==
    LET f == (100 * load) \div capacity
        r == (100 * load) % capacity
    IN IF 2 * r < capacity THEN {f}
       ELSE IF 2 * r > capacity THEN {f + 1}
       ELSE {f, f + 1}

InitGen ==
    /\ IdleClean
    /\ IdleQuant
    /\ IdleRun
    /\ IdleGen

\* one iteration of the loop of generate_warehouses
GenerateWarehouse ==
    /\ wh_i < NumWarehouses
    /\ LET i == wh_i + 1
       IN /\ wh_i' = i
          /\ \E capacity \in randint(CapLow, CapHigh) :
             \E k \in (IF i \in DesignatedWarehouses
                       THEN uniform(HighLoadLo, HighLoadHi)
                       ELSE uniform(NormalLoadLo, NormalLoadHi)) :
             \E rate \in utilization_rate(current_load(capacity, k), capacity) :
                wh' = [warehouse_id |-> i,
                       capacity |-> capacity,
                       current_load |-> current_load(capacity, k),
                       utilization_rate |-> rate]
    /\ UNCHANGED <<gen, cleanVars, quantVars, runVars>>

NextGen == GenerateWarehouse

SpecGen == InitGen /\ [][NextGen]_vars

---------------------------------------------------------------------------
(* Claims on the generator *)

\* C5: every warehouse row generate_warehouses appends has its stored
\* utilization_rate within 0.85..0.95 when its warehouse_id is 3, 7 or 9 and
\* within 0.40..0.80 otherwise, after the truncation of current_load and the
\* rounding of the rate to two decimals.
C5_UtilizationRateInRange ==
    wh_i > 0 =>
        IF wh.warehouse_id \in {3, 7, 9}
        THEN 85 <= wh.utilization_rate /\ wh.utilization_rate <= 95
        ELSE 40 <= wh.utilization_rate /\ wh.utilization_rate <= 80

\* a designated warehouse whose load was truncated and whose rate was rounded
\* up to the lower limit of the high range
C5_Witness ==
    /\ wh.warehouse_id \in {3, 7, 9}
    /\ 100 * wh.current_load < 85 * wh.capacity
    /\ wh.utilization_rate = 85

---------------------------------------------------------------------------
(* The entry points.  A run is followed step by step: which input files it  *)
(* reads, the exception it raises, the messages it prints and the files it  *)
(* writes.  An input file is absent or present with a set of columns;       *)
(* <<"data", d>> stands for data/<d>.csv and <<"cleaned_data", d>> for      *)
(* cleaned_data/<d>_clean.csv.  Failures of the plotting and fitting        *)
(* libraries that depend on the values of the rows are outside the model,   *)
(* except the sample count KMeans needs.                                    *)

Absent == [exists |-> FALSE, cols |-> {}]

File(cols) == [exists |-> TRUE, cols |-> cols]

RawFile(d) == <<"data", d>>

CleanFile(d) == <<"cleaned_data", d>>

InputFiles == {RawFile(d) : d \in Datasets} \cup {CleanFile(d) : d \in Datasets}

\* the columns of the tables data_generator builds
GeneratorColumns(d) ==
    CASE d = "carriers" ->
           {"carrier_id", "name", "avg_rating", "fleet_size", "reliability_score"}
      [] d = "warehouses" ->
           {"warehouse_id", "region", "capacity", "current_load", "utilization_rate"}
      [] d = "routes" ->
           {"route_id", "start_point", "end_point", "distance_km", "avg_time_hours",
            "avg_cost_rub"}
      [] d = "shipments" ->
           {"shipment_id", "ship_date", "planned_delivery", "actual_delivery",
            "weight_kg", "cargo_value_rub", "sender", "receiver", "route_id",
            "carrier_id", "status", "delivery_cost"}
      [] d = "delays" ->
           {"delay_id", "route_id", "date", "reason", "delay_hours", "shipment_id"}

\* raw tables under the English headers the cleaners read; a shipments table
\* may carry a carrier_id column, which clean_shipments passes through
ExpectedColumns(d) ==
    IF d = "shipments" THEN ColsOf(d) \cup {"carrier_id"} ELSE ColsOf(d)

CleanOf(d, df) ==
    CASE d = "shipments" -> clean_shipments(df)
      [] d = "routes" -> clean_routes(df)
      [] d = "warehouses" -> clean_warehouses(df, FALSE)
      [] d = "carriers" -> clean_carriers(df)
      [] d = "delays" -> clean_delays(df)

\* the clean_* call on a table of the given columns: the exception and the
\* columns of the result
CleanColumns(d, cols) == CleanOf(d, DataFrame(cols, <<>>))

Directory(kind) ==
    [f \in InputFiles |->
        IF f[1] = "data"
        THEN File(IF kind = "generated" THEN GeneratorColumns(f[2])
                  ELSE ExpectedColumns(f[2]))
        ELSE File(CleanColumns(f[2], ExpectedColumns(f[2])).df.cols)]

\* the directories a run can find: complete, without cleaned files, with one
\* file absent, or with one column absent from one cleaned file
FileSystems ==
    LET base == {Directory(k) : k \in {"generated", "expected"}}
    IN base
       \cup {[f \in InputFiles |-> IF f[1] = "cleaned_data" THEN Absent ELSE b[f]] :
                b \in base}
       \cup {[b EXCEPT ![f] = Absent] : b \in base, f \in InputFiles}
       \cup UNION {UNION {{[b EXCEPT ![CleanFile(d)] = File(@.cols \ {c})] :
                              c \in b[CleanFile(d)].cols} : d \in Datasets} :
                      b \in base}

Programs ==
    {"data_generator", "data_cleaning", "advanced_analysis", "analysis_visuals",
     "route_clustering", "final_analysis_report", "LogisticsAnalyzer"}

\* what a step does: the exception it raises ("" when none), else the files
\* it writes and the messages it prints
Res(err, writes, msgs) ==
    [err |-> err,
     writes |-> IF err = "" THEN writes ELSE {},
     msgs |-> IF err = "" THEN msgs ELSE {}]

\* statements executed in order: the first exception raised wins
FirstError(errs) ==
    IF \E i \in 1..Len(errs) : errs[i] # ""
    THEN errs[CHOOSE i \in 1..Len(errs) :
                 errs[i] # "" /\ \A j \in 1..(i - 1) : errs[j] = ""]
    ELSE ""

\* pd.read_csv(path)
read_csv(files, f) == IF files[f].exists THEN "" ELSE "FileNotFoundError"

\* df[c] for each c of cols
KeyErrorUnless(files, f, cols) ==
    IF cols \subseteq files[f].cols THEN "" ELSE "KeyError"

\* data_cleaning._load_csv
_load_csv(files, d) == IF files[RawFile(d)].exists THEN "" ELSE "FileNotFoundError"

\* advanced_analysis._load_clean: read_csv rejects a parse_dates column the
\* file lacks with ValueError
_load_clean(files, d, parse_dates) ==
    IF ~files[CleanFile(d)].exists THEN "FileNotFoundError"
    ELSE IF ~(parse_dates \subseteq files[CleanFile(d)].cols) THEN "ValueError"
    ELSE ""

\* analysis_visuals._load_clean: parses the date columns the file has
VisualsLoadClean(files, d) ==
    IF files[CleanFile(d)].exists THEN "" ELSE "FileNotFoundError"

------------------------------------------------------------------------
(* advanced_analysis *)

MinSample == 30

MinGroups == 2

\* the significance level 0.05, p-values being counted in ten-thousandths
AlphaE4 == 500

PvalueScale == 10000

HypothesisFile == <<"outputs", "delivery_time_hypothesis_test.txt">>

AdvancedOutputs ==
    {<<"outputs", "inefficient_routes.csv">>, <<"plots", "correlation_heatmap.png">>,
     <<"plots", "cargo_flow_sankey.html">>}

\* per carrier, the shipments with carrier_id, ship_date and delivery_date
\* present (complete) and those dropna removes (incomplete)
SampleCounts ==
    {f \in [1..NumTestCarriers ->
               [complete : {0, MinSample - 1, MinSample, MinSample + 1},
                incomplete : {0, 1}]] :
        \A c \in 2..NumTestCarriers : f[c].incomplete = 0}

\* what stats.kruskal can return as p-value (NaN for degenerate samples)
Pvalues ==
    {Num(v) : v \in {0, AlphaE4 - 1, AlphaE4, AlphaE4 + 1, PvalueScale}} \cup {NaN}

\* a buggy variant: carriers with more than 30 shipments
ValidCarriersAbove(carrier_counts) ==
    {c \in DOMAIN carrier_counts : carrier_counts[c] > MinSample}

\* carrier_counts[carrier_counts >= 30].index
valid_carriers(carrier_counts) ==
    {c \in DOMAIN carrier_counts : carrier_counts[c] >= MinSample}

\* a buggy variant: the test is skipped only when no carrier is left
NoGroups(data) == Cardinality(DOMAIN data) < 1

\* len(data) < 2
NotEnoughGroups(data) == Cardinality(DOMAIN data) < MinGroups

\* "Reject H0" if pval < 0.05 else "Fail to reject H0"; a comparison with NaN
\* is False
interpretation(pval) ==
    IF pval.t = "num" /\ pval.v < AlphaE4 THEN "Reject H0" ELSE "Fail to reject H0"

NoResult(err, msgs) ==
    [err |-> err, writes |-> {}, msgs |-> msgs, ran |-> FALSE, data |-> <<>>,
     decision |-> ""]

\* a variant in which the missing column is an error
MissingCarrierIdRaises == NoResult("KeyError", {})

\* the branch of hypothesis_testing for a table without carrier_id
MissingCarrierId ==
    NoResult("", {"carrier_id column missing: cannot run hypothesis testing."})

\* data maps each valid carrier to the size of its sample of transit_hours
hypothesis_testing(cols, counts, pval) ==
    IF "carrier_id" \notin cols THEN MissingCarrierId
    ELSE IF ~({"ship_date", "delivery_date"} \subseteq cols)
    THEN NoResult("KeyError", {})
    ELSE LET carrier_counts ==
                 [c \in {k \in DOMAIN counts : counts[k].complete > 0} |->
                     counts[c].complete]
             data == [c \in valid_carriers(carrier_counts) |-> carrier_counts[c]]
         IN IF NotEnoughGroups(data)
            THEN NoResult("",
                     {"Not enough carriers with sample size >=30 for hypothesis test."})
            ELSE [err |-> "",
                  writes |-> {HypothesisFile},
                  msgs |-> {"Hypothesis Test (Kruskal-Wallis)",
                            "Hypothesis test summary saved"},
                  ran |-> TRUE,
                  data |-> data,
                  decision |-> interpretation(pval)]

HypothesisStep == 7

\* the statements of advanced_analysis.main before and after hypothesis_testing
AdvancedStep(files, n) ==
    LET ship == CleanFile("shipments")
        delays == CleanFile("delays")
        routes == CleanFile("routes")
    IN CASE n = 1 ->
              Res(_load_clean(files, "shipments", {"ship_date", "delivery_date"}),
                  {}, {})
         [] n = 2 -> Res(_load_clean(files, "delays", {"date"}), {}, {})
         [] n = 3 -> Res(_load_clean(files, "routes", {}), {}, {})
         [] n = 4 ->
              Res(FirstError(<<KeyErrorUnless(files, ship, {"route_id", "cost"}),
                               KeyErrorUnless(files, delays,
                                              {"route_id", "delay_hours"})>>),
                  {<<"outputs", "inefficient_routes.csv">>},
                  {"Inefficient routes saved"})
         [] n = 5 ->
              Res(FirstError(<<KeyErrorUnless(files, routes, {"route_id", "distance"}),
                               KeyErrorUnless(files, ship,
                                   {"route_id", "cost", "weight", "delivery_date",
                                    "ship_date"})>>),
                  {<<"plots", "correlation_heatmap.png">>},
                  {"Correlation heatmap saved"})
         [] n = 6 ->
              Res(FirstError(<<KeyErrorUnless(files, routes,
                                   {"route_id", "origin", "destination"}),
                               KeyErrorUnless(files, ship, {"route_id"})>>),
                  {<<"plots", "cargo_flow_sankey.html">>},
                  {"Sankey diagram saved"})
         [] n = 8 -> Res("", {}, {"Advanced analysis complete."})

------------------------------------------------------------------------
(* analysis_visuals *)

\* a variant without the check of the date column: the column access raises
PlotWeeklyUnchecked(files) ==
    Res(KeyErrorUnless(files, CleanFile("delays"), {"date", "delay_hours"}),
        {<<"plots", "delay_heatmap.png">>}, {"Saved weekly delay heatmap"})

plot_weekly_delay_patterns(files) ==
    Res(IF "date" \notin files[CleanFile("delays")].cols THEN "ValueError"
        ELSE KeyErrorUnless(files, CleanFile("delays"), {"delay_hours"}),
        {<<"plots", "delay_heatmap.png">>}, {"Saved weekly delay heatmap"})

VisualsStep(files, n) ==
    CASE n = 1 -> Res(VisualsLoadClean(files, "shipments"), {}, {})
      [] n = 2 -> Res(VisualsLoadClean(files, "delays"), {}, {})
      [] n = 3 ->
           Res(KeyErrorUnless(files, CleanFile("shipments"),
                              {"ship_date", "delivery_date", "route_id"}),
               {<<"plots", "delivery_time_by_route.png">>},
               {"Saved delivery time plot"})
      [] n = 4 -> plot_weekly_delay_patterns(files)
      [] n = 5 -> Res("", {}, {"All plots saved"})

------------------------------------------------------------------------
(* route_clustering *)

feature_cols == {"distance", "avg_time", "avg_cost"}

\* a slip of the clustering: the labelled routes are written back to
\* routes_clean.csv
ClusteringStepWritesRoutes(files, n, enough) ==
    CASE n = 1 -> Res(read_csv(files, CleanFile("routes")), {}, {})
      [] n = 2 -> Res(KeyErrorUnless(files, CleanFile("routes"), feature_cols), {}, {})
      [] n = 3 ->
           Res(IF enough THEN "" ELSE "ValueError",
               {<<"plots", "route_clusters.png">>, CleanFile("routes")},
               {"Cluster scatter plot saved", "Cluster profiles saved"})

\* enough: the rows left by dropna are at least N_CLUSTERS
ClusteringStep(files, n, enough) ==
    CASE n = 1 -> Res(read_csv(files, CleanFile("routes")), {}, {})
      [] n = 2 -> Res(KeyErrorUnless(files, CleanFile("routes"), feature_cols), {}, {})
      [] n = 3 ->
           Res(IF enough THEN "" ELSE "ValueError",
               {<<"plots", "route_clusters.png">>, <<"outputs", "cluster_profiles.csv">>},
               {"Cluster scatter plot saved", "Cluster profiles saved"})

------------------------------------------------------------------------
(* data_cleaning and data_generator *)

CleanOrder == <<"shipments", "routes", "warehouses", "carriers", "delays">>

CleanedFiles == {CleanFile(d) : d \in Datasets}

\* a slip of main: each table is written as soon as it is cleaned
CleaningStepWritesEach(files, n) ==
    IF n <= Len(CleanOrder)
    THEN Res(FirstError(<<_load_csv(files, CleanOrder[n]),
                          CleanColumns(CleanOrder[n],
                                       files[RawFile(CleanOrder[n])].cols).err>>),
             {CleanFile(CleanOrder[n])}, {})
    ELSE Res("", {}, {"All cleaned files saved"})

\* main: clean_x(_load_csv(x)) for the five datasets, then the five to_csv
CleaningStep(files, n) ==
    IF n <= Len(CleanOrder)
    THEN Res(FirstError(<<_load_csv(files, CleanOrder[n]),
                          CleanColumns(CleanOrder[n],
                                       files[RawFile(CleanOrder[n])].cols).err>>),
             {}, {})
    ELSE Res("", CleanedFiles, {"All cleaned files saved"})

\* the files after the to_csv calls of data_cleaning.main
FilesAfterCleaning(files) ==
    [f \in InputFiles |->
        IF f[1] = "cleaned_data"
        THEN File(CleanColumns(f[2], files[RawFile(f[2])].cols).df.cols)
        ELSE files[f]]

RawFiles == {RawFile(d) : d \in Datasets}

\* the files after the to_csv calls of data_generator.main
FilesAfterGeneration(files) ==
    [f \in InputFiles |->
        IF f[1] = "data" THEN File(GeneratorColumns(f[2])) ELSE files[f]]

------------------------------------------------------------------------
(* final_analysis_report and LogisticsAnalyzer *)

LoadOrder == <<"shipments", "routes", "carriers", "warehouses", "delays">>

ShipmentDates == {"ship_date", "planned_delivery", "actual_delivery"}

load_and_prepare_data(files) ==
    Res(FirstError([i \in 1..(Len(LoadOrder) + 1) |->
                       IF i <= Len(LoadOrder) THEN read_csv(files, RawFile(LoadOrder[i]))
                       ELSE KeyErrorUnless(files, RawFile("shipments"), ShipmentDates)]),
        {}, {})

ReportStep(files, n) ==
    CASE n = 1 -> load_and_prepare_data(files)
      [] n = 2 ->
           Res(FirstError(<<KeyErrorUnless(files, RawFile("shipments"),
                                           {"route_id", "delivery_cost"}),
                            KeyErrorUnless(files, RawFile("routes"),
                                {"route_id", "distance_km", "start_point", "end_point",
                                 "avg_time_hours"})>>),
               {}, {})
      [] n = 3 ->
           Res(FirstError(<<KeyErrorUnless(files, RawFile("shipments"),
                                {"carrier_id", "delivery_cost", "shipment_id", "status"}),
                            KeyErrorUnless(files, RawFile("carriers"),
                                {"carrier_id", "name", "avg_rating",
                                 "reliability_score"})>>),
               {}, {})
      [] n = 4 ->
           Res(KeyErrorUnless(files, RawFile("warehouses"), {"utilization_rate"}),
               {}, {})
      [] n = 5 ->
           Res(generate_clustering_insights(
                   analyze_route_efficiency(<<>>, <<>>).route_metrics).err, {}, {})

\* the reads and conversions inside the try block of load_data: the exception
\* that ends them and the attributes assigned before it
LoadAttempt(files) ==
    LET missing == {i \in 1..Len(LoadOrder) : ~files[RawFile(LoadOrder[i])].exists}
        first == IF missing = {} THEN Len(LoadOrder) + 1
                 ELSE CHOOSE i \in missing : \A j \in missing : i <= j
    IN [exc |-> IF missing # {} THEN "FileNotFoundError"
                ELSE FirstError(<<KeyErrorUnless(files, RawFile("shipments"),
                                                 ShipmentDates),
                                  KeyErrorUnless(files, RawFile("delays"), {"date"})>>),
        attrs |-> {LoadOrder[i] : i \in 1..(first - 1)}]

\* a variant without the try/except: the exception reaches the caller
LoadDataUncaught(files) ==
    LET a == LoadAttempt(files)
    IN [err |-> a.exc, attrs |-> a.attrs,
        ret |-> IF a.exc = "" THEN "True" ELSE "none",
        msgs |-> IF a.exc = "" THEN {"ru:Dannye uspeshno zagruzheny!"} ELSE {}]

load_data(files) ==
    LET a == LoadAttempt(files)
    IN [err |-> "", attrs |-> a.attrs,
        ret |-> IF a.exc = "" THEN "True" ELSE "False",
        msgs |-> IF a.exc = "" THEN {"ru:Dannye uspeshno zagruzheny!"}
                 ELSE {"ru:Oshibka pri zagruzke dannykh"}]

\* len(None) raises TypeError
get_data_summary(files, attrs) ==
    IF "shipments" \notin attrs
    THEN Res("", {}, {"ru:Snachala zagruzite dannye s pomoshchyu load_data()"})
    ELSE Res(FirstError(<<IF attrs = Datasets THEN "" ELSE "TypeError",
                          KeyErrorUnless(files, RawFile("shipments"),
                                         {"status", "ship_date"})>>),
             {}, {})

------------------------------------------------------------------------
(* The runs *)

NumSteps(p) ==
    CASE p = "data_generator" -> 1
      [] p = "data_cleaning" -> Len(CleanOrder) + 1
      [] p = "advanced_analysis" -> HypothesisStep + 1
      [] p = "analysis_visuals" -> 5
      [] p = "route_clustering" -> 3
      [] p = "final_analysis_report" -> 5
      [] p = "LogisticsAnalyzer" -> 2

InitRun ==
    /\ IdleClean
    /\ IdleQuant
    /\ IdleGen
    /\ fs \in FileSystems
    /\ prog = ""
    /\ pc = 0
    /\ outcome = ""
    /\ log = {}
    /\ written = {}
    /\ analyzer = NoAnalyzer
    /\ hyp = NoTest
    /\ nrun = 0

\* a script is started once the one before it has ended
StartProgram ==
    /\ outcome # "running"
    /\ nrun < MaxPrograms
    /\ prog' \in Programs
    /\ pc' = 0
    /\ outcome' = "running"
    /\ log' = {}
    /\ written' = {}
    /\ analyzer' = NoAnalyzer
    /\ hyp' = NoTest
    /\ nrun' = nrun + 1
    /\ UNCHANGED <<fs, cleanVars, quantVars, genVars>>

Running(p) == prog = p /\ outcome = "running"

\* the step is executed: an exception ends the run, the last step completes it
Advance(res, files) ==
    /\ pc' = pc + 1
    /\ fs' = files
    /\ log' = log \cup res.msgs
    /\ written' = written \cup res.writes
    /\ outcome' = IF res.err # "" THEN res.err
                  ELSE IF pc + 1 = NumSteps(prog) THEN "completed"
                  ELSE "running"
    /\ UNCHANGED <<prog, nrun, cleanVars, quantVars, genVars>>

DataGeneratorMain ==
    /\ Running("data_generator")
    /\ Advance(Res("", RawFiles, {"ru:Generatsiya zavershena!"}),
               FilesAfterGeneration(fs))
    /\ UNCHANGED <<analyzer, hyp>>

DataCleaningMain ==
    /\ Running("data_cleaning")
    /\ Advance(CleaningStep(fs, pc + 1),
               IF pc + 1 > Len(CleanOrder) THEN FilesAfterCleaning(fs) ELSE fs)
    /\ UNCHANGED <<analyzer, hyp>>

AdvancedAnalysisMain ==
    /\ Running("advanced_analysis")
    /\ IF pc + 1 = HypothesisStep
       THEN \E counts \in SampleCounts, pval \in Pvalues :
               LET cols == fs[CleanFile("shipments")].cols
                   r == hypothesis_testing(cols, counts, pval)
               IN /\ Advance(r, fs)
                  /\ hyp' = [counts |-> IF "carrier_id" \in cols THEN counts ELSE <<>>,
                             ran |-> r.ran,
                             carriers |-> r.data,
                             pval |-> IF r.ran THEN pval ELSE NaN,
                             decision |-> r.decision]
       ELSE Advance(AdvancedStep(fs, pc + 1), fs) /\ UNCHANGED hyp
    /\ UNCHANGED analyzer

AnalysisVisualsMain ==
    /\ Running("analysis_visuals")
    /\ Advance(VisualsStep(fs, pc + 1), fs)
    /\ UNCHANGED <<analyzer, hyp>>

RouteClustering ==
    /\ Running("route_clustering")
    /\ \E enough \in BOOLEAN : Advance(ClusteringStep(fs, pc + 1, enough), fs)
    /\ UNCHANGED <<analyzer, hyp>>

FinalAnalysisReportMain ==
    /\ Running("final_analysis_report")
    /\ Advance(ReportStep(fs, pc + 1), fs)
    /\ UNCHANGED <<analyzer, hyp>>

\* analyzer = LogisticsAnalyzer(); analyzer.load_data()
LoadData ==
    /\ Running("LogisticsAnalyzer")
    /\ pc = 0
    /\ LET r == load_data(fs)
       IN /\ Advance(Res(r.err, {}, r.msgs), fs)
          /\ analyzer' = [attrs |-> r.attrs, ret |-> r.ret]
    /\ UNCHANGED hyp

\* the caller goes on with analyzer.get_data_summary()
GetDataSummary ==
    /\ Running("LogisticsAnalyzer")
    /\ pc = 1
    /\ Advance(get_data_summary(fs, analyzer.attrs), fs)
    /\ UNCHANGED <<analyzer, hyp>>

NextRun ==
    \/ StartProgram
    \/ DataGeneratorMain
    \/ DataCleaningMain
    \/ AdvancedAnalysisMain
    \/ AnalysisVisualsMain
    \/ RouteClustering
    \/ FinalAnalysisReportMain
    \/ LoadData
    \/ GetDataSummary

SpecRun == InitRun /\ [][NextRun]_vars

---------------------------------------------------------------------------
(* Claims on the entry points *)

\* the input files the script has tried to read in its first n steps
InputsRead(p, n) ==
    CASE p = "data_cleaning" ->
           {RawFile(CleanOrder[k]) : k \in {j \in 1..Len(CleanOrder) : j <= n}}
      [] p = "advanced_analysis" ->
           {CleanFile(<<"shipments", "delays", "routes">>[k]) : k \in {j \in 1..3 : j <= n}}
      [] p = "analysis_visuals" ->
           {CleanFile(<<"shipments", "delays">>[k]) : k \in {j \in 1..2 : j <= n}}
      [] p = "route_clustering" -> IF n >= 1 THEN {CleanFile("routes")} ELSE {}
      [] p \in {"final_analysis_report", "LogisticsAnalyzer"} ->
           IF n >= 1 THEN RawFiles ELSE {}
      [] OTHER -> {}

MissingInput == \E f \in InputsRead(prog, pc) : ~fs[f].exists

Raised == outcome \notin {"", "running", "completed"}

CompletionMessages ==
    {"All cleaned files saved", "Advanced analysis complete.", "All plots saved",
     "Cluster profiles saved"}

ColumnsOf(f) == fs[f].cols

\* C6 (as stated): in every entry point a missing input CSV raises an error
\* that terminates the run; no loader reports the failure as a return value
\* and lets the caller continue.
C6_MissingFileTerminatesRun ==
    MissingInput => Raised /\ analyzer.ret # "False"

\* C6 (amended): a missing input CSV makes data_cleaning, advanced_analysis,
\* analysis_visuals, route_clustering and final_analysis_report raise
\* FileNotFoundError before anything is written or the completion message is
\* printed; LogisticsAnalyzer.load_data prints the error and returns False
\* instead, and its caller continues.
C6_MissingFileRaisesExceptInLoadData ==
    MissingInput =>
        IF prog = "LogisticsAnalyzer"
        THEN /\ analyzer.ret = "False"
             /\ "ru:Oshibka pri zagruzke dannykh" \in log
             /\ outcome # "FileNotFoundError"
             /\ pc = 1 => outcome = "running"
        ELSE /\ outcome = "FileNotFoundError"
             /\ written = {}
             /\ log \cap CompletionMessages = {}

\* load_data has failed on a missing file and the caller has gone on to
\* get_data_summary
C6_Witness ==
    /\ prog = "LogisticsAnalyzer"
    /\ MissingInput
    /\ analyzer.ret = "False"
    /\ pc = 2

MissingFeatureColumn ==
    /\ prog = "route_clustering"
    /\ pc >= 2
    /\ ~({"distance", "avg_time", "avg_cost"} \subseteq ColumnsOf(CleanFile("routes")))

MissingDateColumn ==
    /\ prog = "analysis_visuals"
    /\ pc >= 4
    /\ "date" \notin ColumnsOf(CleanFile("delays"))

MissingCarrierColumn ==
    /\ prog = "advanced_analysis"
    /\ pc >= 7
    /\ "carrier_id" \notin ColumnsOf(CleanFile("shipments"))

\* C7 (as stated): whenever a step's required column is absent (the feature
\* columns in route clustering, 'date' in plot_weekly_delay_patterns,
\* 'carrier_id' in hypothesis_testing) the step raises an error and the run
\* does not print its completion message.
C7_MissingColumnIsFatal ==
    (MissingFeatureColumn \/ MissingDateColumn \/ MissingCarrierColumn) =>
        Raised /\ log \cap CompletionMessages = {}

\* C7 (amended): an absent feature column in route clustering and an absent
\* 'date' in plot_weekly_delay_patterns raise an error and the run prints no
\* completion message; an absent 'carrier_id' makes hypothesis_testing print
\* a message and return without testing, and advanced_analysis.main goes on
\* to its completion message.
C7_MissingColumnFatalExceptCarrierId ==
    /\ MissingFeatureColumn => outcome = "KeyError" /\ log \cap CompletionMessages = {}
    /\ MissingDateColumn => outcome = "ValueError" /\ log \cap CompletionMessages = {}
    /\ MissingCarrierColumn =>
          /\ "carrier_id column missing: cannot run hypothesis testing." \in log
          /\ ~hyp.ran
          /\ <<"outputs", "delivery_time_hypothesis_test.txt">> \notin written
          /\ outcome \in {"running", "completed"}
          /\ pc = 8 => outcome = "completed" /\ "Advanced analysis complete." \in log

\* advanced_analysis.main has completed on a shipments table without carrier_id
C7_Witness ==
    /\ MissingCarrierColumn
    /\ pc = 8
    /\ outcome = "completed"

\* the carriers with at least 30 shipments whose carrier_id, ship_date and
\* delivery_date are present, in the table hypothesis_testing was given
CarriersWithThirty ==
    {c \in DOMAIN hyp.counts : hyp.counts[c].complete >= 30}

HypothesisTestingCalled ==
    /\ prog = "advanced_analysis"
    /\ pc >= 7
    /\ "carrier_id" \in ColumnsOf(CleanFile("shipments"))

\* C8: when fewer than two carriers have at least 30 complete shipments,
\* hypothesis_testing prints a message and returns without running the test
\* and without writing delivery_time_hypothesis_test.txt, and
\* advanced_analysis.main runs on to its completion message with the outputs
\* of the three earlier steps written.
C8_TooFewCarriersSkipsTest ==
    (HypothesisTestingCalled /\ Cardinality(CarriersWithThirty) < 2) =>
        /\ "Not enough carriers with sample size >=30 for hypothesis test." \in log
        /\ ~hyp.ran
        /\ written = {<<"outputs", "inefficient_routes.csv">>,
                      <<"plots", "correlation_heatmap.png">>,
                      <<"plots", "cargo_flow_sankey.html">>}
        /\ outcome \in {"running", "completed"}
        /\ pc = 8 => outcome = "completed" /\ "Advanced analysis complete." \in log

\* the run has completed with one carrier above the cutoff and one that has
\* 30 shipments of which only 29 are complete
C8_Witness ==
    /\ HypothesisTestingCalled
    /\ pc = 8
    /\ outcome = "completed"
    /\ Cardinality(CarriersWithThirty) = 1
    /\ hyp.counts[1].complete = 29
    /\ hyp.counts[1].incomplete = 1

\* C9: the Kruskal-Wallis test is run on exactly the carriers with 30 or more
\* (complete) shipments, one sample group per such carrier, whenever there are
\* two or more of them, and the decision is 'Reject H0' exactly when the
\* p-value is strictly below 0.05 and 'Fail to reject H0' otherwise.
C9_KruskalGroupsAndDecision ==
    /\ HypothesisTestingCalled /\ Cardinality(CarriersWithThirty) >= 2 => hyp.ran
    /\ hyp.ran =>
          /\ DOMAIN hyp.carriers = CarriersWithThirty
          /\ \A c \in CarriersWithThirty : hyp.carriers[c] = hyp.counts[c].complete
          /\ hyp.decision = IF hyp.pval.t = "num" /\ hyp.pval.v < 500
                            THEN "Reject H0" ELSE "Fail to reject H0"
          /\ <<"outputs", "delivery_time_hypothesis_test.txt">> \in written

\* the test has run with a carrier of 29 shipments left out, a carrier of
\* exactly 30 included and a p-value of exactly 0.05
C9_Witness ==
    /\ hyp.ran
    /\ \E c \in DOMAIN hyp.counts : hyp.counts[c].complete = 29 /\ c \notin DOMAIN hyp.carriers
    /\ \E c \in DOMAIN hyp.counts : hyp.counts[c].complete = 30 /\ c \in DOMAIN hyp.carriers
    /\ hyp.pval = Num(500)
    /\ hyp.decision = "Fail to reject H0"

\* C10: the stages compose: data_cleaning completes on the files written by
\* data_generator (every clean_* function finds the columns it reads), and
\* the analysis scripts find every column they read in the cleaned files.
C10_StagesCompose ==
    /\ (prog = "data_cleaning" /\ \A d \in Datasets : fs[RawFile(d)] = File(GeneratorColumns(d)))
          => ~Raised
    /\ (/\ prog \in {"advanced_analysis", "analysis_visuals", "route_clustering"}
        /\ \A d \in Datasets :
              fs[CleanFile(d)] = File(CleanColumns(d, ExpectedColumns(d)).df.cols))
          => outcome # "KeyError"

---------------------------------------------------------------------------
(* data_generator.main: the five tables.  Two runs of the script are        *)
(* followed side by side: both seed the generators with 42 when the module  *)
(* is loaded, so they make the same draws, but each reads the clock for     *)
(* itself.  Times are in minutes, the resolution of the written columns.    *)
(* The lists of cities and carriers are cut to their first entries and the  *)
(* columns that are plain draws (ratings, distances, costs, weights,        *)
(* reasons) are left out.                                                   *)

cities == <<"ru:Moskva", "ru:SPB">>

carriers == <<"TransLog Express", "RussiaCargo">>

MinutesPerDay == 1440

HistoryDays == 180

\* the clocks of the two runs: the same minute, a minute apart, a day apart
Clocks ==
    LET t == HistoryDays * MinutesPerDay + 1000
    IN {<<t, t>>, <<t, t + 1>>, <<t, t + MinutesPerDay>>}

generate_carriers ==
    [i \in 1..Len(carriers) |-> [carrier_id |-> i, name |-> carriers[i]]]

\* warehouse_id of the rows of generate_warehouses (the rates are in SpecGen)
WarehouseIds == [i \in 1..NumWarehouses |-> [warehouse_id |-> i]]

\* route_id counts the ordered pairs of different cities
generate_routes ==
    LET pairs == SelectSeq(
                     [k \in 1..(Len(cities) * Len(cities)) |->
                         <<cities[((k - 1) \div Len(cities)) + 1],
                           cities[((k - 1) % Len(cities)) + 1]>>],
                     LAMBDA pr : pr[1] # pr[2])
    IN [r \in 1..Len(pairs) |->
           [route_id |-> r, start_point |-> pairs[r][1], end_point |-> pairs[r][2]]]

\* the draws of one iteration of generate_shipments: the rows sampled from
\* routes_df and carriers_df, the day of shipping, the planned duration
\* (minutes and seconds), and the branch taken with its offset from the
\* planned delivery (minutes and seconds)
ShipmentDraws(routes_df, carriers_df) ==
    [route : 1..Len(routes_df), carrier : 1..Len(carriers_df), day : {0, 1},
     planned : {600}, planned_seconds : {30},
     late : {[delayed |-> FALSE, minutes |-> 0 - 30, seconds |-> 0],
             [delayed |-> FALSE, minutes |-> 30, seconds |-> 0],
             [delayed |-> TRUE, minutes |-> 120, seconds |-> 0],
             [delayed |-> TRUE, minutes |-> 240, seconds |-> 0],
             [delayed |-> TRUE, minutes |-> 240, seconds |-> 29],
             [delayed |-> TRUE, minutes |-> 300, seconds |-> 30]}]

\* a buggy variant: the route is drawn as a number, one past the table's end
ShipmentRowRouteDrawn(now, i, d, routes_df, carriers_df) ==
    [shipment_id |-> i, ship_date |-> 0, planned_delivery |-> 0,
     actual_delivery |-> 0, route_id |-> d.route + 1,
     carrier_id |-> carriers_df[d.carrier].carrier_id, status |-> "ru:Dostavleno"]

\* the row appended by iteration i of generate_shipments run at time now;
\* strftime('%Y-%m-%d %H:%M') drops the seconds of the two delivery times
ShipmentRow(now, i, d, routes_df, carriers_df) ==
    LET start_date == now - HistoryDays * MinutesPerDay
        ship_date == start_date + d.day * MinutesPerDay
        planned_delivery == ship_date + d.planned
        actual_delivery == planned_delivery + d.late.minutes
                           + (d.planned_seconds + d.late.seconds) \div 60
    IN [shipment_id |-> i,
        ship_date |-> ship_date \div MinutesPerDay,
        planned_delivery |-> planned_delivery,
        actual_delivery |-> actual_delivery,
        route_id |-> routes_df[d.route].route_id,
        carrier_id |-> carriers_df[d.carrier].carrier_id,
        status |-> IF d.late.delayed /\ 60 * d.late.minutes + d.late.seconds > 60 * 240
                   THEN "ru:Zaderzhka" ELSE "ru:Dostavleno"]

\* round(delay_hours, 1) for a delay of whole minutes, in tenths of an hour
\* (no delay drawn here lies halfway between two tenths)
RoundToTenths(minutes) == (minutes + 3) \div 6

\* a slip of generate_delays: the filter repeats the four hours of the status
GenerateDelaysOverFourHours(shipments_df) ==
    LET delayed_shipments ==
            SelectSeq(shipments_df, LAMBDA s : s.status = "ru:Zaderzhka")
        significant ==
            SelectSeq(delayed_shipments,
                      LAMBDA s : s.actual_delivery - s.planned_delivery > 240)
    IN [k \in 1..Len(significant) |->
           [delay_id |-> k,
            route_id |-> significant[k].route_id,
            date |-> significant[k].ship_date,
            delay_hours |-> RoundToTenths(significant[k].actual_delivery
                                          - significant[k].planned_delivery),
            shipment_id |-> significant[k].shipment_id]]

\* delay_hours is computed again from the written columns (whole minutes)
\* and stored rounded to one decimal, in tenths of an hour here
generate_delays(shipments_df) ==
    LET delayed_shipments ==
            SelectSeq(shipments_df, LAMBDA s : s.status = "ru:Zaderzhka")
        significant ==
            SelectSeq(delayed_shipments,
                      LAMBDA s : s.actual_delivery - s.planned_delivery > 60)
    IN [k \in 1..Len(significant) |->
           [delay_id |-> k,
            route_id |-> significant[k].route_id,
            date |-> significant[k].ship_date,
            delay_hours |-> RoundToTenths(significant[k].actual_delivery
                                          - significant[k].planned_delivery),
            shipment_id |-> significant[k].shipment_id]]

InitGenMain ==
    /\ IdleClean
    /\ IdleQuant
    /\ IdleRun
    /\ wh_i = 0
    /\ wh = NoWarehouse
    /\ gen \in {[step |-> "carriers", now |-> c, tables |-> <<NoTables, NoTables>>] :
                   c \in Clocks}

\* the step of main is made in both runs
GenStep(next, T1, T2) ==
    /\ gen' = [gen EXCEPT !.step = next, !.tables = <<T1, T2>>]
    /\ UNCHANGED <<wh_i, wh, cleanVars, quantVars, runVars>>

GenerateCarriers ==
    /\ gen.step = "carriers"
    /\ GenStep("warehouses", [gen.tables[1] EXCEPT !.carriers = generate_carriers],
                             [gen.tables[2] EXCEPT !.carriers = generate_carriers])

GenerateWarehouses ==
    /\ gen.step = "warehouses"
    /\ GenStep("routes", [gen.tables[1] EXCEPT !.warehouses = WarehouseIds],
                         [gen.tables[2] EXCEPT !.warehouses = WarehouseIds])

GenerateRoutes ==
    /\ gen.step = "routes"
    /\ GenStep("shipments", [gen.tables[1] EXCEPT !.routes = generate_routes],
                            [gen.tables[2] EXCEPT !.routes = generate_routes])

\* one iteration of the loop of generate_shipments, the same draws in both runs
GenerateShipment ==
    /\ gen.step = "shipments"
    /\ Len(gen.tables[1].shipments) < MaxShipments
    /\ \E d \in ShipmentDraws(gen.tables[1].routes, gen.tables[1].carriers) :
          LET Row(k) == ShipmentRow(gen.now[k], Len(gen.tables[k].shipments) + 1, d,
                                    gen.tables[k].routes, gen.tables[k].carriers)
          IN GenStep("shipments",
                 [gen.tables[1] EXCEPT !.shipments = Append(@, Row(1))],
                 [gen.tables[2] EXCEPT !.shipments = Append(@, Row(2))])

GenerateDelays ==
    /\ gen.step = "shipments"
    /\ Len(gen.tables[1].shipments) = MaxShipments
    /\ GenStep("done",
           [gen.tables[1] EXCEPT !.delays = generate_delays(gen.tables[1].shipments)],
           [gen.tables[2] EXCEPT !.delays = generate_delays(gen.tables[2].shipments)])

NextGenMain ==
    \/ GenerateCarriers
    \/ GenerateWarehouses
    \/ GenerateRoutes
    \/ GenerateShipment
    \/ GenerateDelays

SpecGenMain == InitGenMain /\ [][NextGenMain]_vars

---------------------------------------------------------------------------
(* Claims on the generated tables *)

\* the values of column c in a table are pairwise different
UniqueIn(table, c) ==
    \A i, j \in 1..Len(table) : table[i][c] = table[j][c] => i = j

\* C11: every shipment row of generate_shipments carries the route_id of a row
\* of the generated routes table and the carrier_id of a row of the generated
\* carriers table, and shipment_id, route_id, carrier_id and warehouse_id are
\* unique within their tables.
C11_ReferencesExistAndIdsUnique ==
    \A k \in 1..2 :
        LET T == gen.tables[k]
        IN /\ \A i \in 1..Len(T.shipments) :
                 /\ \E r \in 1..Len(T.routes) :
                       T.routes[r].route_id = T.shipments[i].route_id
                 /\ \E c \in 1..Len(T.carriers) :
                       T.carriers[c].carrier_id = T.shipments[i].carrier_id
           /\ UniqueIn(T.shipments, "shipment_id")
           /\ UniqueIn(T.routes, "route_id")
           /\ UniqueIn(T.carriers, "carrier_id")
           /\ UniqueIn(T.warehouses, "warehouse_id")

\* all tables are written and two shipments share their route and carrier
C11_Witness ==
    /\ gen.step = "done"
    /\ Len(gen.tables[1].shipments) >= 2
    /\ gen.tables[1].shipments[1].route_id = gen.tables[1].shipments[2].route_id
    /\ gen.tables[1].shipments[1].carrier_id = gen.tables[1].shipments[2].carrier_id
    /\ Len(gen.tables[1].routes) >= 2

---------------------------------------------------------------------------
(* The merge-based analyses *)

Delayed == "ru:Zaderzhka"

Delivered == "ru:Dostavleno"

QCarriers == {1, 2, 3}

\* reliability_score of the carriers of the tables considered, in hundredths
CarrierReliability(c) == IF c = 1 THEN 95 ELSE IF c = 2 THEN 70 ELSE 85

\* origin and destination of the routes of the tables considered
Regions == <<Str(<<"N">>), Str(<<"S">>)>>

RouteOrigin(r) == IF r = 3 THEN Regions[2] ELSE Regions[1]

RouteDestination(r) == IF r = 3 THEN Regions[1] ELSE Regions[2]

\* Series.clip(lower, upper) on one value
Clip(x, lower, upper) == IF x < lower THEN lower ELSE IF x > upper THEN upper ELSE x

\* performance_score is kept whole in units of 1/ScoreScale
ScoreScale == 1000 * MeanScale

\* carrier_metrics.sort_values('performance_score', ascending=False): NaN
\* scores go last
RECURSIVE SortByScoreDesc(_)
SortByScoreDesc(rows) ==
    IF rows = <<>> THEN <<>>
    ELSE LET Before(a, b) ==
                 \/ IsNa(b.performance_score)
                 \/ /\ ~IsNa(a.performance_score)
                    /\ a.performance_score.v >= b.performance_score.v
             top == CHOOSE i \in 1..Len(rows) :
                        /\ \A j \in 1..Len(rows) : Before(rows[i], rows[j])
                        /\ \A j \in 1..(i - 1) : ~Before(rows[j], rows[i])
         IN <<rows[top]>> \o
            SortByScoreDesc(SubSeq(rows, 1, top - 1) \o SubSeq(rows, top + 1, Len(rows)))

\* a slip of the ranking: the mean delay is not clipped to [0, 10]
PerformanceScoreUnclipped(reliability_score, delay_rate, delay_hours) ==
    IF IsNa(delay_hours) THEN NaN
    ELSE Num(3 * reliability_score.v * MeanScale
             + 400 * (100 * MeanScale - delay_rate.v)
             + 3 * MeanScale * (1000 - delay_hours.v))

\* reliability_score * 0.3 + (100 - delay_rate) * 0.4
\*   + (10 - delay_hours.clip(0, 10)) * 0.3
\* with reliability_score and delay_hours in hundredths and delay_rate in
\* units of 1/MeanScale
PerformanceScore(reliability_score, delay_rate, delay_hours) ==
    IF IsNa(delay_hours) THEN NaN
    ELSE Num(3 * reliability_score.v * MeanScale
             + 400 * (100 * MeanScale - delay_rate.v)
             + 3 * MeanScale * (1000 - Clip(delay_hours.v, 0, 1000)))

\* final_analysis_report.analyze_carrier_performance: the inner merge keeps
\* the shipments whose carrier is in carriers_df; the aggregates are rounded to
\* two decimals before the score is computed from them
analyze_carrier_performance(shipments, carriers_df) ==
    LET InCarriers(r) == \E j \in 1..Len(carriers_df) : carriers_df[j].carrier_id = r.carrier_id
        shipments_carriers == SelectSeq(shipments, InCarriers)
        keys == Sort(SeqOfSet({shipments_carriers[i].carrier_id.v :
                                  i \in 1..Len(shipments_carriers)}))
        IsDelayed(s) == s = Delayed
        carrier_metrics ==
            [i \in 1..Len(keys) |->
                LET k == Num(keys[i])
                    statuses == GroupCells(shipments_carriers, "carrier_id", k, "status")
                    carrier == CHOOSE j \in 1..Len(carriers_df) : carriers_df[j].carrier_id = k
                    delay_hours ==
                        RoundedMean(GroupCells(shipments_carriers, "carrier_id", k, "delay_hours"))
                    delay_rate ==
                        Num(Len(SelectSeq(statuses, IsDelayed)) * 100
                              * (MeanScale \div Len(statuses)))
                IN [carrier_id |-> k,
                    delay_hours |-> delay_hours,
                    delivery_cost |->
                        RoundedMean(GroupCells(shipments_carriers, "carrier_id", k, "delivery_cost")),
                    shipment_id |->
                        Num(Len(Values(GroupCells(shipments_carriers, "carrier_id", k, "shipment_id")))),
                    reliability_score |-> carriers_df[carrier].reliability_score,
                    delay_rate |-> delay_rate,
                    performance_score |->
                        PerformanceScore(carriers_df[carrier].reliability_score, delay_rate, delay_hours)]]
    IN SortByScoreDesc(carrier_metrics)

\* shipments_df.merge(routes_df[cols], on="route_id", how="left"): every
\* shipment is kept, with the route's columns, missing when no route matches
LeftMergeRoutes(shipments_df, routes_df, cols) ==
    [i \in 1..Len(shipments_df) |->
        [c \in DOMAIN shipments_df[i] \cup cols |->
            IF c \in DOMAIN shipments_df[i] THEN shipments_df[i][c]
            ELSE IF \E j \in 1..Len(routes_df) : routes_df[j].route_id = shipments_df[i].route_id
                 THEN routes_df[CHOOSE j \in 1..Len(routes_df) :
                                   routes_df[j].route_id = shipments_df[i].route_id][c]
                 ELSE NaN]]

\* a slip of the correlation sample: distance is not among the columns
\* whose missing values drop the row
CorrelationKeepsMissingDistance(shipments_df, routes_df) ==
    LET merged == LeftMergeRoutes(shipments_df, routes_df, {"distance"})
        Complete(r) == ~IsNa(r.cost) /\ ~IsNa(r.weight)
        kept == SelectSeq(merged, Complete)
    IN [i \in 1..Len(kept) |->
           [weight |-> kept[i].weight, cost |-> kept[i].cost, distance |-> kept[i].distance,
            transit_hours |-> IF IsNa(kept[i].delivery_date) \/ IsNa(kept[i].ship_date) THEN NaN
                              ELSE Num(kept[i].delivery_date.v - kept[i].ship_date.v)]]

\* advanced_analysis.correlation_analysis up to the frame 'metrics' whose
\* correlation matrix is plotted; the dates and transit_hours are in minutes
correlation_analysis(shipments_df, routes_df) ==
    LET merged == LeftMergeRoutes(shipments_df, routes_df, {"distance"})
        Complete(r) == ~IsNa(r.cost) /\ ~IsNa(r.weight) /\ ~IsNa(r.distance)
        kept == SelectSeq(merged, Complete)
    IN [i \in 1..Len(kept) |->
           [weight |-> kept[i].weight, cost |-> kept[i].cost, distance |-> kept[i].distance,
            transit_hours |-> IF IsNa(kept[i].delivery_date) \/ IsNa(kept[i].ship_date) THEN NaN
                              ELSE Num(kept[i].delivery_date.v - kept[i].ship_date.v)]]

\* advanced_analysis.sankey_cargo_flow up to the frame 'flows':
\* groupby(["origin", "destination"]).size() leaves out the rows with a
\* missing key and orders the groups by key
sankey_cargo_flow(shipments_df, routes_df) ==
    LET merged == LeftMergeRoutes(shipments_df, routes_df, {"origin", "destination"})
        Size(o, d) == Cardinality({i \in 1..Len(merged) :
                                      merged[i].origin = o /\ merged[i].destination = d})
        pairs == [n \in 1..(Len(Regions) * Len(Regions)) |->
                     [origin |-> Regions[((n - 1) \div Len(Regions)) + 1],
                      destination |-> Regions[((n - 1) % Len(Regions)) + 1]]]
        Present(p) == Size(p.origin, p.destination) > 0
        groups == SelectSeq(pairs, Present)
    IN [i \in 1..Len(groups) |->
           [origin |-> groups[i].origin, destination |-> groups[i].destination,
            count |-> Size(groups[i].origin, groups[i].destination)]]

\* shipments (with delay_hours computed), routes and carriers as held by the
\* report generator after load_and_prepare_data; shipment ids are the row
\* numbers
MergeReportInputs ==
    {[kind |-> "report",
      shipments |-> [i \in 1..Len(sh) |->
                        [shipment_id |-> Num(i), route_id |-> sh[i].route_id,
                         carrier_id |-> sh[i].carrier_id, delay_hours |-> sh[i].delay_hours,
                         delivery_cost |-> Num(2), status |-> sh[i].status]],
      routes |-> ro, carriers |-> ca] :
        sh \in TablesUpToOrder({[route_id |-> Num(r), carrier_id |-> Num(c),
                                 delay_hours |-> Num(h[1]), status |-> h[2]] :
                                   r \in {1, 2}, c \in QCarriers,
                                   h \in {<<0, Delivered>>, <<1, Delivered>>, <<12, Delayed>>}},
                               MaxQRows),
        ro \in {[i \in 1..Len(Sort(SeqOfSet(R))) |->
                    [route_id |-> Num(Sort(SeqOfSet(R))[i]),
                     distance_km |-> Num(RouteDistance(Sort(SeqOfSet(R))[i]))]] :
                   R \in SUBSET {1, 2}},
        ca \in {[i \in 1..Len(Sort(SeqOfSet(K))) |->
                    [carrier_id |-> Num(Sort(SeqOfSet(K))[i]),
                     reliability_score |-> Num(CarrierReliability(Sort(SeqOfSet(K))[i]))]] :
                   K \in SUBSET QCarriers}}

\* shipments_clean.csv and routes_clean.csv as read by advanced_analysis.main
MergeAdvancedInputs ==
    {[kind |-> "flows", shipments |-> sh, routes |-> ro] :
        sh \in TablesUpToOrder({[route_id |-> r, cost |-> c, weight |-> Num(2),
                                 ship_date |-> Num(0), delivery_date |-> Num(90)] :
                                   r \in {NaN} \cup {Num(q) : q \in QRoutes},
                                   c \in {NaN, Num(4)}},
                               MaxQRows),
        ro \in {[i \in 1..Len(Sort(SeqOfSet(R))) |->
                    [route_id |-> Num(Sort(SeqOfSet(R))[i]),
                     distance |-> Num(RouteDistance(Sort(SeqOfSet(R))[i])),
                     origin |-> RouteOrigin(Sort(SeqOfSet(R))[i]),
                     destination |-> RouteDestination(Sort(SeqOfSet(R))[i])]] :
                   R \in SUBSET QRoutes}}

InitMerge ==
    /\ IdleClean
    /\ IdleGen
    /\ IdleRun
    /\ qin \in MergeReportInputs \cup MergeAdvancedInputs
    /\ qstep = ""
    /\ route_metrics = <<>>
    /\ thresholds = <<>>
    /\ problematic = <<>>
    /\ insightsErr = ""
    /\ qout = <<>>

AnalyzeCarrierPerformance ==
    /\ qin.kind = "report"
    /\ "carriers" \in DOMAIN qin
    /\ qstep = ""
    /\ qout' = analyze_carrier_performance(qin.shipments, qin.carriers)
    /\ qstep' = "analyze_carrier_performance"
    /\ UNCHANGED <<qin, route_metrics, thresholds, problematic, insightsErr,
                   cleanVars, genVars, runVars>>

CorrelationAnalysis ==
    /\ qin.kind = "flows"
    /\ qstep = ""
    /\ qout' = correlation_analysis(qin.shipments, qin.routes)
    /\ qstep' = "correlation_analysis"
    /\ UNCHANGED <<qin, route_metrics, thresholds, problematic, insightsErr,
                   cleanVars, genVars, runVars>>

SankeyCargoFlow ==
    /\ qin.kind = "flows"
    /\ qstep = ""
    /\ qout' = sankey_cargo_flow(qin.shipments, qin.routes)
    /\ qstep' = "sankey_cargo_flow"
    /\ UNCHANGED <<qin, route_metrics, thresholds, problematic, insightsErr,
                   cleanVars, genVars, runVars>>

\* carrier_metrics.tail(n): the last n rows, all of them when there are fewer
tail(rows, n) ==
    SubSeq(rows, IF Len(rows) > n THEN Len(rows) - n + 1 ELSE 1, Len(rows))

\* main, key findings: len(carrier_metrics.tail(2)) carriers recommended for
\* replacement
KeyFindingsCarriers(carrier_metrics) == Len(tail(carrier_metrics, 2))

\* main, executive summary of the report file: len(carrier_metrics.tail(3))
UnderperformingCarriers(carrier_metrics) == Len(tail(carrier_metrics, 3))

\* generate_recommendations: the carriers listed under 'Replace
\* underperforming carriers'
ReplaceCarriers(carrier_metrics) ==
    [i \in 1..Len(tail(carrier_metrics, 3)) |-> tail(carrier_metrics, 3)[i].carrier_id]

\* what main states about the carriers once analyze_carrier_performance has
\* returned: the recommendations, the key findings and the report file
ReportCarriers ==
    /\ qin.kind = "report"
    /\ qstep = "analyze_carrier_performance"
    /\ qout' = [carrier_metrics |-> qout,
                replace |-> ReplaceCarriers(qout),
                key_findings |-> KeyFindingsCarriers(qout),
                underperforming |-> UnderperformingCarriers(qout)]
    /\ qstep' = "main"
    /\ UNCHANGED <<qin, route_metrics, thresholds, problematic, insightsErr,
                   cleanVars, genVars, runVars>>

NextMerge ==
    \/ AnalyzeRouteEfficiency
    \/ AnalyzeCarrierPerformance
    \/ ReportCarriers
    \/ CorrelationAnalysis
    \/ SankeyCargoFlow

SpecMerge == InitMerge /\ [][NextMerge]_vars

---------------------------------------------------------------------------
(* Claims on the merge-based analyses *)

\* the shipments whose key has a match in the other table
Matched(shipments, key, table) ==
    LET HasMatch(r) == \E j \in 1..Len(table) : table[j][key] = r[key]
    IN SelectSeq(shipments, HasMatch)

Unmatched(shipments, key, table) ==
    {i \in 1..Len(shipments) : \A j \in 1..Len(table) : table[j][key] # shipments[i][key]}

\* C12: a shipment whose route_id or carrier_id has no match is left out by
\* every merge-based step: each step returns what it returns without these
\* shipments, no aggregate row carries an unmatched id, and the per-route and
\* per-carrier counts, the flow counts and the correlation sample count the
\* matched shipments only
C12_UnmatchedShipmentsDropped ==
    /\ qstep = "analyze_route_efficiency" =>
          /\ route_metrics =
                analyze_route_efficiency(Matched(qin.shipments, "route_id", qin.routes),
                                         qin.routes).route_metrics
          /\ \A i \in 1..Len(route_metrics.rows) :
                \E j \in 1..Len(qin.routes) :
                    qin.routes[j].route_id = route_metrics.rows[i].route_id
          /\ SeqSum([i \in 1..Len(route_metrics.rows) |-> route_metrics.rows[i].shipment_count.v])
                = Len(Matched(qin.shipments, "route_id", qin.routes))
    /\ qstep = "analyze_carrier_performance" =>
          /\ qout = analyze_carrier_performance(
                        Matched(qin.shipments, "carrier_id", qin.carriers), qin.carriers)
          /\ \A i \in 1..Len(qout) :
                \E j \in 1..Len(qin.carriers) : qin.carriers[j].carrier_id = qout[i].carrier_id
          /\ SeqSum([i \in 1..Len(qout) |-> qout[i].shipment_id.v])
                = Len(Matched(qin.shipments, "carrier_id", qin.carriers))
    /\ qstep = "correlation_analysis" =>
          /\ qout = correlation_analysis(Matched(qin.shipments, "route_id", qin.routes),
                                         qin.routes)
          /\ Len(qout) <= Len(Matched(qin.shipments, "route_id", qin.routes))
          /\ \A i \in 1..Len(qout) : ~IsNa(qout[i].distance)
    /\ qstep = "sankey_cargo_flow" =>
          /\ qout = sankey_cargo_flow(Matched(qin.shipments, "route_id", qin.routes),
                                      qin.routes)
          /\ SeqSum([i \in 1..Len(qout) |-> qout[i].count])
                = Len(Matched(qin.shipments, "route_id", qin.routes))

\* a merge-based step has run on shipments of which one has no match and
\* another has one
C12_Witness ==
    /\ qstep = "correlation_analysis"
    /\ Unmatched(qin.shipments, "route_id", qin.routes) # {}
    /\ \E i \in 1..Len(qin.shipments) : ~IsNa(qin.shipments[i].cost)
                                        /\ i \in Unmatched(qin.shipments, "route_id", qin.routes)
    /\ qout # <<>>

---------------------------------------------------------------------------
(* The delay of a shipment *)

\* a slip of the delay: early deliveries keep their negative difference
DelayHoursUnclipped(planned_delivery, actual_delivery) ==
    IF IsNa(planned_delivery) \/ IsNa(actual_delivery) THEN NaN
    ELSE Num(actual_delivery.v - planned_delivery.v)

\* ((actual_delivery - planned_delivery).dt.total_seconds() / 3600).clip(lower=0)
\* on one row, in minutes: a missing timestamp is NaT after to_datetime, the
\* difference is then missing and clip leaves it missing
DelayHours(planned_delivery, actual_delivery) ==
    IF IsNa(planned_delivery) \/ IsNa(actual_delivery) THEN NaN
    ELSE Num(IF actual_delivery.v - planned_delivery.v < 0 THEN 0
             ELSE actual_delivery.v - planned_delivery.v)

\* the part of final_analysis_report.load_and_prepare_data that follows the
\* reads: delay_hours and delivery_days are added to shipments
PrepareShipments(shipments) ==
    [i \in 1..Len(shipments) |->
        [ship_date |-> shipments[i].ship_date,
         planned_delivery |-> shipments[i].planned_delivery,
         actual_delivery |-> shipments[i].actual_delivery,
         delay_hours |-> DelayHours(shipments[i].planned_delivery, shipments[i].actual_delivery),
         delivery_days |-> IF IsNa(shipments[i].actual_delivery) THEN NaN
                           ELSE Num((shipments[i].actual_delivery.v - shipments[i].ship_date.v)
                                       \div MinutesPerDay)]]

\* LogisticsAnalyzer.calculate_delivery_metrics: actual_duration_hours and
\* delay_hours are added to self.shipments
calculate_delivery_metrics(shipments) ==
    [i \in 1..Len(shipments) |->
        [ship_date |-> shipments[i].ship_date,
         planned_delivery |-> shipments[i].planned_delivery,
         actual_delivery |-> shipments[i].actual_delivery,
         actual_duration_hours |-> IF IsNa(shipments[i].actual_delivery) THEN NaN
                                   ELSE Num(shipments[i].actual_delivery.v
                                              - shipments[i].ship_date.v),
         delay_hours |-> DelayHours(shipments[i].planned_delivery, shipments[i].actual_delivery)]]

\* data/shipments.csv after the three to_datetime calls, timestamps in
\* minutes; an empty cell of the file is NaT
LoadedShipments ==
    {[kind |-> "loaded", shipments |-> sh] :
        sh \in TablesUpToOrder({[ship_date |-> Date(0), planned_delivery |-> p,
                                 actual_delivery |-> a] :
                                   p \in {NaN, Date(600), Date(2000)},
                                   a \in {NaN, Date(570), Date(600), Date(1800)}},
                               MaxQRows)}

InitLoad ==
    /\ IdleClean
    /\ IdleGen
    /\ IdleRun
    /\ qin \in LoadedShipments
    /\ qstep = ""
    /\ route_metrics = <<>>
    /\ thresholds = <<>>
    /\ problematic = <<>>
    /\ insightsErr = ""
    /\ qout = <<>>

LoadAndPrepareData ==
    /\ qin.kind = "loaded"
    /\ qstep = ""
    /\ qout' = PrepareShipments(qin.shipments)
    /\ qstep' = "load_and_prepare_data"
    /\ UNCHANGED <<qin, route_metrics, thresholds, problematic, insightsErr,
                   cleanVars, genVars, runVars>>

CalculateDeliveryMetrics ==
    /\ qin.kind = "loaded"
    /\ qstep = ""
    /\ qout' = calculate_delivery_metrics(qin.shipments)
    /\ qstep' = "calculate_delivery_metrics"
    /\ UNCHANGED <<qin, route_metrics, thresholds, problematic, insightsErr,
                   cleanVars, genVars, runVars>>

NextLoad ==
    \/ LoadAndPrepareData
    \/ CalculateDeliveryMetrics

SpecLoad == InitLoad /\ [][NextLoad]_vars

---------------------------------------------------------------------------
(* Claims on the delay of a shipment *)

DelayComputed == qstep \in {"load_and_prepare_data", "calculate_delivery_metrics"}

\* C13 as stated: after load_and_prepare_data or calculate_delivery_metrics
\* every shipment's delay_hours is a non-negative number, the difference
\* actual - planned when the shipment is late and 0 otherwise
C13_DelayHoursNonNegative ==
    DelayComputed =>
        \A i \in 1..Len(qout) :
            /\ qout[i].delay_hours.t = "num"
            /\ qout[i].delay_hours.v >= 0

\* C13 amended: a shipment with both timestamps has a non-negative
\* delay_hours, actual - planned when late and 0 when on time or early; a
\* shipment with a missing timestamp has a missing delay_hours
C13_DelayHoursNonNegativeOrMissing ==
    DelayComputed =>
        /\ Len(qout) = Len(qin.shipments)
        /\ \A i \in 1..Len(qout) :
              LET p == qin.shipments[i].planned_delivery
                  a == qin.shipments[i].actual_delivery
              IN IF IsNa(p) \/ IsNa(a) THEN IsNa(qout[i].delay_hours)
                 ELSE /\ qout[i].delay_hours.t = "num"
                      /\ qout[i].delay_hours.v >= 0
                      /\ a.v > p.v => qout[i].delay_hours.v = a.v - p.v
                      /\ a.v <= p.v => qout[i].delay_hours.v = 0

\* delay_hours has been computed for a late shipment, an early one and one
\* without its actual delivery time
C13_Witness ==
    /\ DelayComputed
    /\ \E i, j, k \in 1..Len(qout) :
          /\ qout[i].delay_hours.t = "num" /\ qout[i].delay_hours.v > 0
          /\ ~IsNa(qin.shipments[j].actual_delivery) /\ ~IsNa(qin.shipments[j].planned_delivery)
          /\ qin.shipments[j].actual_delivery.v < qin.shipments[j].planned_delivery.v
          /\ IsNa(qin.shipments[k].actual_delivery)

---------------------------------------------------------------------------
(* Claims on the imputation *)

\* the cells of column col that the last clean_* call filled: missing just
\* before the imputation statement, a number just after it
FilledCells(col) ==
    {i \in 1..Len(stage.coerced.rows) :
        IsNa(stage.coerced.rows[i][col]) /\ ~IsNa(stage.imputed.rows[i][col])}

\* the median of the non-missing values of col, just before the imputation,
\* among the rows that agree with row i on the columns of groupCols
MedianWithinGroup(i, groupCols, col) ==
    LET SameGroup(r) == \A g \in groupCols : r[g] = stage.coerced.rows[i][g]
        group == SelectSeq(stage.coerced.rows, SameGroup)
    IN Median([j \in 1..Len(group) |-> group[j][col]])

\* C14 as stated: every value a cleaner fills is the median of the
\* non-missing values of its column within the row's group (the route for
\* shipments and delays, the whole table for warehouses)
C14_FilledWithGroupMedian ==
    (runs >= 1 /\ cleanErr = "") =>
        /\ dataset = "shipments" =>
              \A col \in {"weight", "cost"} : \A i \in FilledCells(col) :
                  stage.imputed.rows[i][col] = MedianWithinGroup(i, {"route_id"}, col)
        /\ dataset = "warehouses" =>
              \A i \in FilledCells("current_fill") :
                  stage.imputed.rows[i]["current_fill"] = MedianWithinGroup(i, {}, "current_fill")
        /\ dataset = "delays" =>
              \A i \in FilledCells("delay_hours") :
                  stage.imputed.rows[i]["delay_hours"]
                      = MedianWithinGroup(i, {"route_id"}, "delay_hours")

\* C14 amended: a filled weight or cost of shipments is the median of the
\* column within the row's route_id; a filled current_fill of warehouses is
\* the median of the whole column; a filled delay_hours of delays is 0
C14_FilledWithMedianOrZero ==
    (runs >= 1 /\ cleanErr = "") =>
        /\ dataset = "shipments" =>
              \A col \in {"weight", "cost"} : \A i \in FilledCells(col) :
                  stage.imputed.rows[i][col] = MedianWithinGroup(i, {"route_id"}, col)
        /\ dataset = "warehouses" =>
              \A i \in FilledCells("current_fill") :
                  stage.imputed.rows[i]["current_fill"] = MedianWithinGroup(i, {}, "current_fill")
        /\ dataset = "delays" =>
              \A i \in FilledCells("delay_hours") :
                  stage.imputed.rows[i]["delay_hours"] = Num(0)

\* clean_shipments has filled a weight in a table whose routes have
\* different medians
C14_Witness ==
    /\ dataset = "shipments"
    /\ runs = 1
    /\ cleanErr = ""
    /\ \E i \in FilledCells("weight") :
          MedianWithinGroup(i, {"route_id"}, "weight") # MedianWithinGroup(i, {}, "weight")

---------------------------------------------------------------------------
(* Claims on the removal of duplicates *)

\* C15: the table a clean_* function returns has no two identical rows; the
\* rows compared are the renamed, coerced and normalized ones
C15_NoDuplicateRows ==
    (runs >= 1 /\ cleanErr = "") =>
        \A i, j \in 1..Len(cur.rows) : i # j => cur.rows[i] # cur.rows[j]

\* a cleaner has dropped a row of a raw table whose rows were all different:
\* two rows became identical only through coercion or normalization
C15_Witness ==
    /\ runs = 1
    /\ cleanErr = ""
    /\ \A i, j \in 1..Len(raw.rows) : i # j => raw.rows[i] # raw.rows[j]
    /\ Len(cur.rows) < Len(raw.rows)
    /\ Len(cur.rows) >= 2

---------------------------------------------------------------------------
(* Claims on the localized headers *)

\* the columns of the cleaned table that the cleaner or a later step reads
ColumnsRead(d) ==
    CASE d = "shipments" -> {"ship_date", "delivery_date", "weight", "cost", "sender",
                             "recipient", "route_id", "status", "carrier_id"}
      [] d = "routes" -> {"route_id", "origin", "destination", "distance", "avg_time",
                          "avg_cost"}
      [] d = "warehouses" -> {"region", "capacity", "current_fill"}
      [] d = "carriers" -> {"name", "rating", "fleet_size", "reliability"}
      [] d = "delays" -> {"route_id", "date", "reason", "delay_hours"}

\* the table with every header in English
EnglishHeaders(df, d) ==
    LET En(c) == IF c = LocalizedCarrierId THEN "carrier_id"
                 ELSE RenameCol(RenameMapOf(d), c)
        Old(n) == CHOOSE c \in df.cols : En(c) = n
    IN DataFrame({En(c) : c \in df.cols},
           [i \in 1..Len(df.rows) |-> [n \in {En(c) : c \in df.cols} |-> df.rows[i][Old(n)]]])

CleanResult(d, df, copyOnWrite) ==
    CASE d = "shipments" -> clean_shipments(df)
      [] d = "routes" -> clean_routes(df)
      [] d = "warehouses" -> clean_warehouses(df, copyOnWrite)
      [] d = "carriers" -> clean_carriers(df)
      [] d = "delays" -> clean_delays(df)

\* C16 as stated: cleaning a table gives what cleaning the same table under
\* English headers gives, and the cleaned table carries, under their English
\* names, the columns that the cleaner and the later steps read
C16_LocalizedHeadersCleanAlike ==
    runs = 1 =>
        LET english == CleanResult(dataset, EnglishHeaders(raw, dataset), cow)
        IN /\ cleanErr = english.err
           /\ cleanErr = "" => /\ cur = english.df
                               /\ ColumnsRead(dataset) \subseteq cur.cols

\* the table restricted to the columns read, the carrier of a shipment excepted
MappedColumns(df, d) ==
    LET cols == (df.cols \cap ColumnsRead(d)) \ {"carrier_id"}
    IN DataFrame(cols, [i \in 1..Len(df.rows) |-> [c \in cols |-> df.rows[i][c]]])

\* C16 amended: the same holds for the columns the rename maps name, which
\* are all the columns read except the carrier of a shipment; the carrier
\* column keeps the header it came with
C16_MappedHeadersCleanAlike ==
    runs = 1 =>
        LET english == CleanResult(dataset, EnglishHeaders(raw, dataset), cow)
        IN /\ cleanErr = english.err
           /\ cleanErr = "" =>
                 /\ MappedColumns(cur, dataset) = MappedColumns(english.df, dataset)
                 /\ ColumnsRead(dataset) \ {"carrier_id"} \subseteq cur.cols
                 /\ raw.cols \cap ColumnsRead(dataset) \subseteq cur.cols
                 /\ LocalizedCarrierId \in raw.cols => LocalizedCarrierId \in cur.cols

\* a shipments table with Russian headers, the carrier's included, has been
\* cleaned
C16_Witness ==
    /\ runs = 1
    /\ cleanErr = ""
    /\ dataset = "shipments"
    /\ raw.cols \cap ColumnsRead(dataset) = {}
    /\ Len(cur.rows) >= 2
    /\ LocalizedCarrierId \in cur.cols

---------------------------------------------------------------------------
(* Claims on the carrier ranking *)

\* the shipments of carrier k
ShipmentsOf(k) ==
    LET OfCarrier(r) == r.carrier_id = k
    IN SelectSeq(qin.shipments, OfCarrier)

\* the carriers of the carriers table with at least one shipment
CarriersWithShipments ==
    {qin.carriers[j].carrier_id : j \in 1..Len(qin.carriers)}
        \cap {qin.shipments[i].carrier_id : i \in 1..Len(qin.shipments)}

\* 0.3 * reliability_score + 0.4 * (100 - delay_rate)
\*   + 0.3 * (10 - min(max(mean, 0), 10)) in units of 1/ScoreScale, for a
\* reliability in hundredths, and counts of delayed and of all shipments and
\* a mean delay in units of 1/meanUnit hours
WeightedScore(reliability, delayed, total, mean, meanUnit) ==
    3 * reliability * MeanScale
      + 400 * (100 * MeanScale - delayed * 100 * (MeanScale \div total))
      + 3000 * MeanScale
      - ((3000 * MeanScale) \div (10 * meanUnit))
          * (IF mean < 0 THEN 0 ELSE IF mean > 10 * meanUnit THEN 10 * meanUnit ELSE mean)

\* the carriers ranked are those with a matched shipment, delay_rate is the
\* percentage of delayed shipments, and the rows are in non-increasing order
\* of performance_score
CarriersRanked ==
    /\ {qout[i].carrier_id : i \in 1..Len(qout)} = CarriersWithShipments
    /\ \A i, j \in 1..Len(qout) : i # j => qout[i].carrier_id # qout[j].carrier_id
    /\ \A i \in 1..Len(qout) :
          LET mine == ShipmentsOf(qout[i].carrier_id)
              IsDelayed(r) == r.status = Delayed
          IN qout[i].delay_rate.v * Len(mine)
                = 100 * MeanScale * Len(SelectSeq(mine, IsDelayed))
    /\ \A i \in 1..(Len(qout) - 1) :
          qout[i].performance_score.v >= qout[i + 1].performance_score.v

\* C17 as stated: performance_score is the weighted sum taken with the
\* carrier's mean delay_hours
C17_ScoreFromMeanDelay ==
    qstep = "analyze_carrier_performance" =>
        /\ CarriersRanked
        /\ \A i \in 1..Len(qout) :
              LET mine == ShipmentsOf(qout[i].carrier_id)
                  IsDelayed(r) == r.status = Delayed
              IN qout[i].performance_score.v
                    = WeightedScore(CarrierReliability(qout[i].carrier_id.v),
                                    Len(SelectSeq(mine, IsDelayed)), Len(mine),
                                    ExactMean(Column(mine, "delay_hours")).v, MeanScale)

\* C17 amended: performance_score is the weighted sum taken with the
\* carrier's mean delay_hours rounded to two decimals
C17_ScoreFromRoundedMeanDelay ==
    qstep = "analyze_carrier_performance" =>
        /\ CarriersRanked
        /\ \A i \in 1..Len(qout) :
              LET mine == ShipmentsOf(qout[i].carrier_id)
                  IsDelayed(r) == r.status = Delayed
                  sum == SeqSum(Values(Column(mine, "delay_hours")))
                  hundredths == CHOOSE h \in 0..(100 * sum) :
                                    /\ 2 * Len(mine) * h <= 200 * sum + Len(mine)
                                    /\ 200 * sum + Len(mine) < 2 * Len(mine) * (h + 1)
              IN qout[i].performance_score.v
                    = WeightedScore(CarrierReliability(qout[i].carrier_id.v),
                                    Len(SelectSeq(mine, IsDelayed)), Len(mine),
                                    hundredths, 100)

\* a carrier has been ranked whose mean delay has more than two decimals,
\* from shipments of which one is delayed
C17_Witness ==
    /\ qstep = "analyze_carrier_performance"
    /\ \E i \in 1..Len(qout) :
          /\ 100 * ExactMean(Column(ShipmentsOf(qout[i].carrier_id), "delay_hours")).v
                # MeanScale * qout[i].delay_hours.v
          /\ qout[i].delay_rate.v > 0

---------------------------------------------------------------------------
(* route_clustering: the labels and the cluster profiles *)

N_CLUSTERS == 3

\* routes_df.dropna(subset=feature_cols)
DropNaFeatures(routes_df) ==
    LET Complete(r) == \A c \in feature_cols : ~IsNa(r[c])
    IN SelectSeq(routes_df, Complete)

\* a slip of the labelling: one code more than N_CLUSTERS
LabelsWithStrayCode(rows) ==
    {l \in [1..Len(rows) -> 0..N_CLUSTERS] :
        \A i, j \in 1..Len(rows) :
            (\A c \in feature_cols : rows[i][c] = rows[j][c]) => l[i] = l[j]}

\* the label sequences KMeans(n_clusters=N_CLUSTERS).fit_predict may return
\* for the rows: codes below N_CLUSTERS, the same code for rows with the same
\* features (which codes go to which rows depends on the fitted centres)
KMeansLabels(rows) ==
    {l \in [1..Len(rows) -> 0..(N_CLUSTERS - 1)] :
        \A i, j \in 1..Len(rows) :
            (\A c \in feature_cols : rows[i][c] = rows[j][c]) => l[i] = l[j]}

\* routes_df.groupby("cluster")[feature_cols].mean().round(2).reset_index(),
\* the means in hundredths
ClusterProfile(labelled) ==
    LET codes == Sort(SeqOfSet({labelled[i].cluster.v : i \in 1..Len(labelled)}))
    IN [k \in 1..Len(codes) |->
           [cluster |-> Num(codes[k]),
            distance |-> RoundedMean(GroupCells(labelled, "cluster", Num(codes[k]), "distance")),
            avg_time |-> RoundedMean(GroupCells(labelled, "cluster", Num(codes[k]), "avg_time")),
            avg_cost |-> RoundedMean(GroupCells(labelled, "cluster", Num(codes[k]), "avg_cost"))]]

\* the module body of route_clustering from dropna on, for one outcome l of
\* fit_predict: StandardScaler rejects an empty table and KMeans a table
\* with fewer rows than clusters, both with ValueError, before any file is
\* written
ClusterRoutesWith(routes_df, l) ==
    LET kept == DropNaFeatures(routes_df)
        labelled == [i \in 1..Len(kept) |->
                        [route_id |-> kept[i].route_id, distance |-> kept[i].distance,
                         avg_time |-> kept[i].avg_time, avg_cost |-> kept[i].avg_cost,
                         cluster |-> Num(l[i])]]
    IN IF Len(kept) < N_CLUSTERS
       THEN [err |-> "ValueError", routes_df |-> kept, cluster_profile |-> <<>>,
             files |-> {}]
       ELSE [err |-> "", routes_df |-> labelled, cluster_profile |-> ClusterProfile(labelled),
             files |-> {<<"plots", "route_clusters.png">>,
                        <<"outputs", "cluster_profiles.csv">>}]

\* routes_clean.csv as read by route_clustering: route ids are the row
\* numbers, a feature may be missing
CleanRoutesTables ==
    {[kind |-> "routes_clean",
      routes |-> [i \in 1..Len(ro) |->
                     [route_id |-> Num(i), distance |-> ro[i].distance,
                      avg_time |-> ro[i].avg_time, avg_cost |-> ro[i].avg_cost]]] :
        ro \in TablesUpToOrder({[distance |-> d, avg_time |-> Num(2), avg_cost |-> c] :
                                   d \in {NaN, Num(1), Num(3)}, c \in {NaN, Num(4)}},
                               MaxRoutes)}

InitCluster ==
    /\ IdleClean
    /\ IdleGen
    /\ IdleRun
    /\ qin \in CleanRoutesTables
    /\ qstep = ""
    /\ route_metrics = <<>>
    /\ thresholds = <<>>
    /\ problematic = <<>>
    /\ insightsErr = ""
    /\ qout = <<>>

ClusterRoutes ==
    /\ qin.kind = "routes_clean"
    /\ qstep = ""
    /\ \E l \in KMeansLabels(DropNaFeatures(qin.routes)) :
          qout' = ClusterRoutesWith(qin.routes, l)
    /\ qstep' = "route_clustering"
    /\ UNCHANGED <<qin, route_metrics, thresholds, problematic, insightsErr,
                   cleanVars, genVars, runVars>>

NextCluster == ClusterRoutes

SpecCluster == InitCluster /\ [][NextCluster]_vars

---------------------------------------------------------------------------
(* Claims on the clustering *)

\* the cluster codes given to the routes
CodesAssigned == {qout.routes_df[i].cluster : i \in 1..Len(qout.routes_df)}

\* cluster_profiles.csv has one row for each code assigned
OneProfilePerCode ==
    /\ {qout.cluster_profile[k].cluster : k \in 1..Len(qout.cluster_profile)} = CodesAssigned
    /\ Len(qout.cluster_profile) = Cardinality(CodesAssigned)

\* C18 as stated: every route of routes_clean.csv is labelled with one code
\* in {0, 1, 2}, and cluster_profiles.csv has one row per code assigned
C18_EveryRouteLabelled ==
    qstep = "route_clustering" =>
        /\ qout.err = ""
        /\ \A j \in 1..Len(qin.routes) :
              \E i \in 1..Len(qout.routes_df) :
                  /\ qout.routes_df[i].route_id = qin.routes[j].route_id
                  /\ qout.routes_df[i].cluster \in {Num(0), Num(1), Num(2)}
        /\ Len(qout.routes_df) = Len(qin.routes)
        /\ OneProfilePerCode

\* C18 amended: when at least three routes have all three features, exactly
\* those routes are labelled, each with one code in {0, 1, 2}, the routes with
\* a missing feature get no label, and cluster_profiles.csv has one row per
\* code assigned; with fewer such routes the run ends with ValueError and
\* writes nothing
C18_CompleteRoutesLabelled ==
    qstep = "route_clustering" =>
        LET complete == {j \in 1..Len(qin.routes) :
                            \A c \in feature_cols : ~IsNa(qin.routes[j][c])}
        IN IF Cardinality(complete) < 3
           THEN qout.err = "ValueError" /\ qout.files = {} /\ qout.cluster_profile = <<>>
           ELSE /\ qout.err = ""
                /\ {qout.routes_df[i].route_id : i \in 1..Len(qout.routes_df)}
                      = {qin.routes[j].route_id : j \in complete}
                /\ Len(qout.routes_df) = Cardinality(complete)
                /\ \A i \in 1..Len(qout.routes_df) :
                      qout.routes_df[i].cluster \in {Num(0), Num(1), Num(2)}
                /\ OneProfilePerCode
                /\ <<"outputs", "cluster_profiles.csv">> \in qout.files

\* three routes have been labelled with three codes while a fourth, with a
\* missing feature, was left out
C18_Witness ==
    /\ qstep = "route_clustering"
    /\ qout.err = ""
    /\ Len(qout.routes_df) < Len(qin.routes)
    /\ Cardinality(CodesAssigned) >= 2
    /\ Len(qout.cluster_profile) >= 2

---------------------------------------------------------------------------
(* Claims on the cleaned files *)

AnalysisPrograms == {"advanced_analysis", "analysis_visuals", "route_clustering"}

\* C19: a step of advanced_analysis, analysis_visuals or route_clustering
\* leaves every file under cleaned_data as it is and writes only under plots
\* and outputs, whatever ran before it
C19_AnalysesLeaveCleanedFiles ==
    [][(prog \in AnalysisPrograms /\ outcome = "running") =>
          /\ \A d \in Datasets : fs'[CleanFile(d)] = fs[CleanFile(d)]
          /\ \A w \in written' \ written : w[1] \in {"plots", "outputs"}]_vars

\* an analysis has completed, with files written, as the second program run
\* on a directory holding the five cleaned files
C19_Witness ==
    /\ nrun = MaxPrograms
    /\ prog = "route_clustering"
    /\ outcome = "completed"
    /\ <<"outputs", "cluster_profiles.csv">> \in written
    /\ \A d \in Datasets : fs[CleanFile(d)].exists

---------------------------------------------------------------------------
(* Claims on the reproducibility of the generator *)

\* C20: two runs of data_generator.main, whenever they start, write the same
\* carriers, warehouses, routes, shipments and delays tables
C20_RunsWriteIdenticalTables ==
    gen.step = "done" => gen.tables[1] = gen.tables[2]

---------------------------------------------------------------------------
(* Claims on the writes of data_cleaning *)

\* C21: as long as data_cleaning.main has not completed, whether it is still
\* loading and cleaning or has stopped on a missing file or a failed clean,
\* it has written no file and the files under cleaned_data are as it found them
C21_NoPartialCleanedSet ==
    [][(prog' = "data_cleaning" /\ outcome' # "completed") =>
          /\ written' = {}
          /\ \A d \in Datasets : fs'[CleanFile(d)] = fs[CleanFile(d)]]_vars

\* data_cleaning.main stopped on its last raw file, after cleaning four
\* tables, without a file written
C21_Witness ==
    /\ prog = "data_cleaning"
    /\ outcome = "FileNotFoundError"
    /\ pc = Len(CleanOrder)
    /\ written = {}

---------------------------------------------------------------------------
(* Warehouse utilization.  final_analysis_report.analyze_warehouse_        *)
(* utilization labels every warehouse with pd.cut and selects the critical *)
(* ones; LogisticsAnalyzer.analyze_warehouse_utilization selects with the  *)
(* same threshold.  Rates are in hundredths, as in the generator.  The     *)
(* input is warehouses.csv: any table of rates, or the table the generator *)
(* writes.                                                                 *)

MaxWarehouseRows == 2

CriticalRate == 85

UtilizationBins == <<0, 60, 75, 85, 95, 100>>

UtilizationLabels == <<"Low", "Normal", "High", "Critical", "Overloaded">>

\* the category of a value that falls in no interval
NoCategory == "NaN"

\* pd.cut(x, bins, labels): the intervals are closed on the right and the
\* lowest edge is not included; a value outside every interval gets NaN
cut(x, bins, labels) ==
    LET hit == {k \in 1..Len(labels) : bins[k] < x /\ x <= bins[k + 1]}
    IN IF hit = {} THEN NoCategory ELSE labels[CHOOSE k \in hit : TRUE]

analyze_warehouse_utilization(warehouses) ==
    LET labelled == [i \in 1..Len(warehouses) |->
                       [warehouse_id |-> warehouses[i].warehouse_id,
                        utilization_rate |-> warehouses[i].utilization_rate,
                        utilization_category |->
                            cut(warehouses[i].utilization_rate,
                                UtilizationBins, UtilizationLabels)]]
        IsCritical(w) == w.utilization_rate > CriticalRate
    IN [warehouses |-> labelled,
        critical_warehouses |-> SelectSeq(labelled, IsCritical)]

\* the critical warehouses LogisticsAnalyzer.analyze_warehouse_utilization returns
LogisticsAnalyzerCritical(warehouses) ==
    LET IsCritical(w) == w.utilization_rate > CriticalRate
    IN [critical_warehouses |-> SelectSeq(warehouses, IsCritical)]

\* the values the generator's stream delivers to generate_warehouses after
\* np.random.seed(42) and the draws of generate_carriers: the twelve
\* capacities of randint(1000, 5000) and the twelve samples in [0, 1) behind
\* uniform, the samples cut to six decimals
SeededCapacity ==
    <<4533, 2016, 4796, 1337, 1791, 1763, 1492, 3062, 4928, 2367, 3695, 2162>>

SeededSample ==
    <<195982, 961172, 388677, 539692, 356753, 607034,
      140924, 165266, 986886, 394881, 5522, 198842>>

\* int(capacity * uniform(lo, hi)) for a sample in millionths: uniform is
\* lo + (hi - lo) * sample; the product is split so that it stays in range
SeededLoad(capacity, lo, hi, sample) ==
    LET u == lo * 1000000 + (hi - lo) * sample
        a == capacity * (u \div 10000)
        b == capacity * (u % 10000)
    IN (a + b \div 10000) \div 10000

\* the rows generate_warehouses appends under the seed
generate_warehouses ==
    [i \in 1..NumWarehouses |->
        LET capacity == SeededCapacity[i]
            load == IF i \in DesignatedWarehouses
                    THEN SeededLoad(capacity, HighLoadLo, HighLoadHi, SeededSample[i])
                    ELSE SeededLoad(capacity, NormalLoadLo, NormalLoadHi, SeededSample[i])
        IN [warehouse_id |-> i,
            capacity |-> capacity,
            current_load |-> load,
            utilization_rate |-> CHOOSE r \in utilization_rate(load, capacity) : TRUE]]

UtilizationRates == {0, 30, 60, 61, 75, 76, 85, 86, 95, 96, 100, 120}

WarehouseTables ==
    {[kind |-> "warehouses", generated |-> FALSE,
      warehouses |-> [i \in 1..Len(t) |-> [warehouse_id |-> i,
                                            utilization_rate |-> t[i]]]] :
        t \in TablesUpToOrder(UtilizationRates, MaxWarehouseRows)}
    \cup {[kind |-> "warehouses", generated |-> TRUE,
           warehouses |-> [i \in 1..NumWarehouses |->
                              [warehouse_id |-> generate_warehouses[i].warehouse_id,
                               utilization_rate |-> generate_warehouses[i].utilization_rate]]]}

InitUtil ==
    /\ IdleClean
    /\ IdleGen
    /\ IdleRun
    /\ qin \in WarehouseTables
    /\ qstep = ""
    /\ route_metrics = <<>>
    /\ thresholds = <<>>
    /\ problematic = <<>>
    /\ insightsErr = ""
    /\ qout = <<>>

AnalyzeWarehouseUtilization ==
    /\ qin.kind = "warehouses"
    /\ qstep = ""
    /\ qout' = analyze_warehouse_utilization(qin.warehouses)
    /\ qstep' = "analyze_warehouse_utilization"
    /\ UNCHANGED <<qin, route_metrics, thresholds, problematic, insightsErr,
                   cleanVars, genVars, runVars>>

AnalyzerWarehouseUtilization ==
    /\ qin.kind = "warehouses"
    /\ qstep = ""
    /\ qout' = LogisticsAnalyzerCritical(qin.warehouses)
    /\ qstep' = "LogisticsAnalyzer.analyze_warehouse_utilization"
    /\ UNCHANGED <<qin, route_metrics, thresholds, problematic, insightsErr,
                   cleanVars, genVars, runVars>>

NextUtil ==
    \/ AnalyzeWarehouseUtilization
    \/ AnalyzerWarehouseUtilization

SpecUtil == InitUtil /\ [][NextUtil]_vars

\* the warehouse ids of a table
IdsOf(rows) == {rows[i].warehouse_id : i \in 1..Len(rows)}

\* C22: analyze_warehouse_utilization gives every warehouse one of the five
\* utilization categories, and a warehouse is in critical_warehouses exactly
\* when its category is 'Critical' or 'Overloaded', whatever its
\* utilization_rate (0, exactly 0.85 and values above 1.0 included).
C22_CategoriesCoverCritical ==
    qstep = "analyze_warehouse_utilization" =>
        \A i \in 1..Len(qout.warehouses) :
            LET w == qout.warehouses[i]
            IN /\ \E k \in 1..Len(UtilizationLabels) :
                     w.utilization_category = UtilizationLabels[k]
               /\ (w.warehouse_id \in IdsOf(qout.critical_warehouses))
                     <=> (w.utilization_category \in {"Critical", "Overloaded"})

---------------------------------------------------------------------------
(* Claims on the cells the imputation leaves alone *)

\* C24: the group-median imputation of clean_shipments changes only missing
\* cells: a weight or cost that is present just before the imputation has the
\* same value after it, also in the rows whose route_id is missing.
C24_ImputationKeepsPresentCells ==
    (dataset = "shipments" /\ runs >= 1 /\ cleanErr = "") =>
        \A col \in {"weight", "cost"} : \A i \in 1..Len(stage.coerced.rows) :
            ~IsNa(stage.coerced.rows[i][col]) =>
                stage.imputed.rows[i][col] = stage.coerced.rows[i][col]

---------------------------------------------------------------------------
(* Claims on the analyzer after a failed load *)

\* C26: when load_data returns False the analyzer has none of its five
\* dataset attributes set, so the get_data_summary that follows prints the
\* 'load the data first' message and returns without an error.
C26_FailedLoadLeavesAnalyzerUnset ==
    (prog = "LogisticsAnalyzer" /\ analyzer.ret = "False") =>
        /\ analyzer.attrs = {}
        /\ pc = 2 =>
              /\ outcome = "completed"
              /\ "ru:Snachala zagruzite dannye s pomoshchyu load_data()" \in log

---------------------------------------------------------------------------
(* A session with LogisticsAnalyzer after a successful load_data: the       *)
(* caller invokes the methods in any order.  The analyzer keeps the columns *)
(* of self.shipments, which calculate_delivery_metrics and                  *)
(* plot_delivery_time_distribution extend; log is the sequence of the calls *)
(* made and outcome the exception of the last one.  The plotting methods    *)
(* write into the directory visualizations, which the caller may or may not *)
(* have created.                                                            *)

MaxCalls == 2

Methods ==
    {"get_data_summary", "calculate_delivery_metrics", "plot_delivery_time_distribution",
     "analyze_routes_efficiency", "plot_route_efficiency", "analyze_carriers_performance",
     "plot_carriers_comparison", "analyze_warehouse_utilization", "cluster_routes",
     "generate_recommendations", "create_analysis_report"}

DerivedColumns == {"actual_duration_hours", "delay_hours"}

\* self.shipments[c] for each c of needed
ShipmentsKeyError(columns, needed) == IF needed \subseteq columns THEN "" ELSE "KeyError"

\* savefig, write_html and open(..., 'w') under visualizations/
WriteVisualization(dirExists) == IF dirExists THEN "" ELSE "FileNotFoundError"

\* analyze_routes_efficiency: the merge on route_id and the aggregation
RoutesEfficiencyError(files, columns) ==
    FirstError(<<ShipmentsKeyError(columns, {"route_id", "delay_hours", "delivery_cost"}),
                 KeyErrorUnless(files, RawFile("routes"),
                                {"route_id", "avg_time_hours", "distance_km",
                                 "start_point", "end_point"})>>)

\* analyze_carriers_performance: the merge on carrier_id and the aggregation
CarriersPerformanceError(files, columns) ==
    FirstError(<<ShipmentsKeyError(columns, {"carrier_id", "delay_hours", "delivery_cost",
                                             "shipment_id", "status"}),
                 KeyErrorUnless(files, RawFile("carriers"),
                                {"carrier_id", "name", "avg_rating",
                                 "reliability_score"})>>)

\* LogisticsAnalyzer.analyze_warehouse_utilization: the bar chart and its file
WarehouseUtilizationError(files, dirExists) ==
    FirstError(<<KeyErrorUnless(files, RawFile("warehouses"),
                                {"utilization_rate", "region"}),
                 WriteVisualization(dirExists)>>)

SummaryError(columns) == ShipmentsKeyError(columns, {"status", "ship_date"})

RecommendationsError(files, columns, dirExists) ==
    FirstError(<<CarriersPerformanceError(files, columns),
                 WarehouseUtilizationError(files, dirExists),
                 RoutesEfficiencyError(files, columns)>>)

\* the exception a method raises ("" for none) and the columns of
\* self.shipments after the call
Call(method, files, columns, dirExists) ==
    CASE method = "get_data_summary" ->
           [err |-> SummaryError(columns), columns |-> columns]
      [] method = "calculate_delivery_metrics" ->
           [err |-> ShipmentsKeyError(columns, ShipmentDates),
            columns |-> columns \cup DerivedColumns]
      [] method = "plot_delivery_time_distribution" ->
           [err |-> FirstError(<<ShipmentsKeyError(columns, ShipmentDates \cup {"status"}),
                                 WriteVisualization(dirExists)>>),
            columns |-> columns \cup DerivedColumns \cup {"weekday"}]
      [] method = "analyze_routes_efficiency" ->
           [err |-> RoutesEfficiencyError(files, columns), columns |-> columns]
      [] method = "plot_route_efficiency" ->
           [err |-> FirstError(<<RoutesEfficiencyError(files, columns),
                                 WriteVisualization(dirExists)>>),
            columns |-> columns]
      [] method = "analyze_carriers_performance" ->
           [err |-> CarriersPerformanceError(files, columns), columns |-> columns]
      [] method = "plot_carriers_comparison" ->
           [err |-> FirstError(<<CarriersPerformanceError(files, columns),
                                 WriteVisualization(dirExists)>>),
            columns |-> columns]
      [] method = "analyze_warehouse_utilization" ->
           [err |-> WarehouseUtilizationError(files, dirExists), columns |-> columns]
      [] method = "cluster_routes" ->
           [err |-> FirstError(<<RoutesEfficiencyError(files, columns),
                                 WriteVisualization(dirExists)>>),
            columns |-> columns]
      [] method = "generate_recommendations" ->
           [err |-> RecommendationsError(files, columns, dirExists), columns |-> columns]
      [] method = "create_analysis_report" ->
           [err |-> FirstError(<<SummaryError(columns),
                                 RecommendationsError(files, columns, dirExists),
                                 WriteVisualization(dirExists)>>),
            columns |-> columns]

\* the directories on which load_data returns True
LoadableFileSystems == {files \in FileSystems : load_data(files).ret = "True"}

InitSession ==
    /\ IdleClean
    /\ IdleQuant
    /\ IdleGen
    /\ fs \in LoadableFileSystems
    /\ prog = "LogisticsAnalyzer"
    /\ pc = 0
    /\ outcome = ""
    /\ log = <<>>
    /\ written = {}
    /\ \E dirExists \in BOOLEAN :
          analyzer = [attrs |-> load_data(fs).attrs, ret |-> load_data(fs).ret,
                      columns |-> fs[RawFile("shipments")].cols,
                      visualizations |-> dirExists]
    /\ hyp = NoTest
    /\ nrun = 1

\* analyzer.<method>(), or create_analysis_report(analyzer); an exception
\* ends the session
CallMethod ==
    /\ pc < MaxCalls
    /\ outcome = ""
    /\ \E method \in Methods :
          LET r == Call(method, fs, analyzer.columns, analyzer.visualizations)
          IN /\ log' = Append(log, method)
             /\ outcome' = r.err
             /\ analyzer' = [analyzer EXCEPT !.columns = r.columns]
    /\ pc' = pc + 1
    /\ UNCHANGED <<fs, prog, written, hyp, nrun, cleanVars, quantVars, genVars>>

NextSession == CallMethod

SpecSession == InitSession /\ [][NextSession]_vars

\* the methods that read the derived column delay_hours of self.shipments
DelayReaders ==
    {"analyze_routes_efficiency", "analyze_carriers_performance", "cluster_routes",
     "generate_recommendations", "create_analysis_report"}

\* C25: after a successful load_data the methods can be called in any order:
\* a method that reads the derived column delay_hours finds it in
\* self.shipments and raises no KeyError, whether or not
\* calculate_delivery_metrics or plot_delivery_time_distribution ran before.
C25_DelayHoursReadyAfterLoad ==
    (pc >= 1 /\ log[pc] \in DelayReaders) =>
        /\ "delay_hours" \in analyzer.columns
        /\ outcome # "KeyError"

---------------------------------------------------------------------------
(* Claims on the delay events of the generator *)

\* the delay events written for a shipment
EventsOf(T, s) == {j \in 1..Len(T.delays) : T.delays[j].shipment_id = s.shipment_id}

\* C27: generate_delays writes exactly one delay event for every shipment
\* whose status is delayed and none for any other shipment; an event carries
\* the shipment_id and route_id of its shipment and a delay_hours above one
\* hour, and the delay_ids are 1..n without gaps.
C27_OneEventPerDelayedShipment ==
    gen.step = "done" =>
        \A k \in 1..2 :
            LET T == gen.tables[k]
            IN /\ \A i \in 1..Len(T.shipments) :
                     /\ Cardinality(EventsOf(T, T.shipments[i]))
                           = IF T.shipments[i].status = "ru:Zaderzhka" THEN 1 ELSE 0
                     /\ \A j \in EventsOf(T, T.shipments[i]) :
                           T.delays[j].route_id = T.shipments[i].route_id
               /\ \A j \in 1..Len(T.delays) :
                     /\ T.delays[j].delay_id = j
                     /\ T.delays[j].delay_hours > 10
                     /\ \E i \in 1..Len(T.shipments) : j \in EventsOf(T, T.shipments[i])

\* a shipment that is 4 h 0 min 29 s late is written as exactly four hours
\* late and has its event; a shipment two hours late is not delayed and has
\* no event
C27_Witness ==
    /\ gen.step = "done"
    /\ \E i, n \in 1..Len(gen.tables[1].shipments) :
          LET s == gen.tables[1].shipments[i]
              t == gen.tables[1].shipments[n]
          IN /\ s.status = "ru:Zaderzhka"
             /\ s.actual_delivery - s.planned_delivery = 240
             /\ \E j \in EventsOf(gen.tables[1], s) :
                   gen.tables[1].delays[j].delay_hours = 40
             /\ t.status = "ru:Dostavleno"
             /\ t.actual_delivery - t.planned_delivery = 120
             /\ EventsOf(gen.tables[1], t) = {}

---------------------------------------------------------------------------
(* Claims on what the final report states about the carriers *)

---------------------------------------------------------------------------
(* Claims on the completion of final_analysis_report *)

\* C29: generate_clustering_insights completes on the route_metrics table
\* analyze_route_efficiency returns (every column it aggregates, route_id
\* included, is present), so final_analysis_report.main raises no exception
\* on the files the generator writes and goes on to the dashboard and the
\* report file.
C29_ReportCompletesOnGeneratedFiles ==
    (/\ prog = "final_analysis_report"
     /\ \A d \in Datasets : fs[RawFile(d)] = File(GeneratorColumns(d)))
        => outcome \in {"running", "completed"}

====
